---- MODULE Spec2Model ----
(***************************************************************************)
(* go-trustless-utils: the streaming CAR verifier (traversal/traversal.go) *)
(* and its error-capturing loader (traversal/readopener.go).               *)
(*                                                                         *)
(* One verification call is a state machine.  The selector engine          *)
(* (go-ipld-prime) is the environment: it asks the link system for the     *)
(* root, then walks the DAG depth first, one load per link it meets.  The  *)
(* block stream is a read-once resource: what Next returns is chosen when  *)
(* it is called, and every block it has handed out is kept in `consumed'.  *)
(***************************************************************************)
EXTENDS Integers, Sequences, FiniteSets, TLC

\* multihash digests are 1..MaxMh
MaxMh == 3
\* Config.MaxBlocks ranges over 0..MaxBudget
MaxBudget == 3
\* load errors the engine swallows in one walk: at most MaxSwallowed
MaxSwallowed == 1

Mhs == 1..MaxMh
Codecs == {"dag-pb", "raw"}
Cid(m, c) == [mh |-> m, codec |-> c]
\* every digest as a dag-pb CID, and digest 2 as a raw CID too
Cids == { Cid(m, "dag-pb") : m \in Mhs } \cup { Cid(2, "raw") }
NoCid == [mh |-> 0, codec |-> "none"]

\* len(blk.RawData()) of the block with digest m; the block with digest 3 is empty
BlockLen(m) == IF m = 3 THEN 0 ELSE m

(***************************************************************************)
(* The DAGs verified: dag[m] is the sequence of links the block with       *)
(* digest m decodes to.  A link with the raw codec decodes to bytes, which *)
(* hold no links.  Every DAG is rooted at digest 1 and is acyclic.         *)
(***************************************************************************)
P(m) == Cid(m, "dag-pb")
R(m) == Cid(m, "raw")
Leaf == [m \in Mhs |-> <<>>]
Dags ==
    { [Leaf EXCEPT ![1] = <<P(2), P(3)>>],                  \* root, child1, child2
      [Leaf EXCEPT ![1] = <<P(2), P(2)>>],                  \* child revisited
      [Leaf EXCEPT ![1] = <<P(2), P(3)>>, ![2] = <<P(3)>>], \* empty block revisited deeper
      [Leaf EXCEPT ![1] = <<P(2), R(2)>>],                  \* one digest under two codecs
      [Leaf EXCEPT ![1] = <<P(2), P(3), P(2)>>] }           \* revisit after a sibling

Links(d, c) == IF c.codec = "raw" THEN <<>> ELSE d[c.mh]

(***************************************************************************)
(* Errors.  An error is the chain errors.Unwrap walks, outermost first;    *)
(* each layer says which sentinels errors.Is finds in it and whether it    *)
(* has a NotFound() method returning true.  nil is the empty chain.        *)
(***************************************************************************)
NoError == <<>>
Sentinel(k) == << [is |-> {k}, nf |-> FALSE] >>
\* format.ErrNotFound{Cid: expected}
ErrNotFound == << [is |-> {"NotFound"}, nf |-> TRUE] >>
\* fmt.Errorf("...: %w", e)
Wrap(e) == << [is |-> {}, nf |-> FALSE] >> \o e
KindsOf(e) == UNION { e[i].is : i \in DOMAIN e }
\* multierr.Combine(sentinel k, e): errors.Is sees both, errors.Unwrap sees nothing
Combine(k, e) == << [is |-> {k} \cup KindsOf(e), nf |-> FALSE] >>
ErrIs(e, k) == k \in KindsOf(e)

ErrUnexpectedBlock == Wrap(Sentinel("UnexpectedBlock"))
ErrExtraneousBlock == Sentinel("ExtraneousBlock")
ErrBadVersion == Sentinel("BadVersion")
ErrBadRoots == Sentinel("BadRoots")
ErrStream == Sentinel("StreamError")
ErrStore == Sentinel("StoreError")
ErrBudgetExceeded == Sentinel("BudgetExceeded")
ErrCanceled == Sentinel("Canceled")

RECURSIVE HasNotFound(_)
HasNotFound(e) == IF e = <<>> THEN FALSE
                  ELSE IF Head(e).nf THEN TRUE ELSE HasNotFound(Tail(e))

traversalError(original) ==
    IF HasNotFound(original) THEN Combine("MissingBlock", original) ELSE original


(***************************************************************************)
(* The block stream.  Next returns a block, io.EOF or another error; once  *)
(* it has returned EOF or an error it keeps returning it.                  *)
(***************************************************************************)
Blk(c) == [t |-> "blk", cid |-> c]
Eof == [t |-> "eof", cid |-> NoCid]
StreamFail == [t |-> "err", cid |-> NoCid]
NextOutcomes(end) ==
    IF end = "eof" THEN {Eof}
    ELSE IF end = "err" THEN {StreamFail}
    ELSE {Eof, StreamFail} \cup { Blk(c) : c \in Cids }

\* readNextBlock comparing the whole CID, codec included
readNextBlockWholeCid(nx, expected) ==
    IF nx.t = "eof" THEN [data |-> 0, err |-> ErrNotFound]
    ELSE IF nx.t = "err" THEN [data |-> 0, err |-> Combine("MalformedCar", ErrStream)]
    ELSE IF nx.cid # expected THEN [data |-> 0, err |-> ErrUnexpectedBlock]
    ELSE [data |-> nx.cid.mh, err |-> NoError]

\* readNextBlock: the bytes (named by their digest, 0 for nil) or an error
readNextBlock(nx, expected) ==
    IF nx.t = "eof" THEN [data |-> 0, err |-> ErrNotFound]
    ELSE IF nx.t = "err" THEN [data |-> 0, err |-> Combine("MalformedCar", ErrStream)]
    ELSE IF nx.cid.mh # expected.mh THEN [data |-> 0, err |-> ErrUnexpectedBlock]
    ELSE [data |-> nx.cid.mh, err |-> NoError]

\* recordBlockOut counting the bytes and not the block
recordBlockOutBytesOnly(bt, data) ==
    [bt EXCEPT !.bytesOut = @ + BlockLen(data)]

\* writeTracker
ZeroTracker == [blocksIn |-> 0, blocksOut |-> 0, bytesIn |-> 0, bytesOut |-> 0]
\* recordBlockIn counting the block and not its bytes
recordBlockInBlocksOnly(bt, data) ==
    [bt EXCEPT !.blocksIn = @ + 1]

recordBlockIn(bt, data) ==
    [bt EXCEPT !.blocksIn = @ + 1, !.bytesIn = @ + BlockLen(data)]
recordBlockOut(bt, data) ==
    [bt EXCEPT !.blocksOut = @ + 1, !.bytesOut = @ + BlockLen(data)]

(***************************************************************************)
(* The caller's store.  A read of a link answers "ok" (the bytes written   *)
(* under it), "notfound" or "error"; a write answers "ok" or "fail" (the   *)
(* write opener, the copy or the commit fails).  A well-behaved store      *)
(* answers "ok" for every write and for every read of a link it holds, and *)
(* "notfound" for a link it does not hold.                                 *)
(***************************************************************************)
StoreReads(wellBehaved, st, c) ==
    IF wellBehaved THEN (IF st[c] > 0 THEN {"ok"} ELSE {"notfound"})
    ELSE (IF st[c] > 0 THEN {"ok"} ELSE {}) \cup {"notfound", "error"}
StoreWrites(wellBehaved) ==
    IF wellBehaved THEN {"ok"} ELSE {"ok", "fail"}
StoreReadErr(so) == IF so = "notfound" THEN ErrNotFound ELSE ErrStore

(***************************************************************************)
(* nextBlockReadOpener: one call of the closure it returns.  s holds the   *)
(* closure's state before the call (seen, the stream, the tracker, the     *)
(* store); the result is that state after it, with the error returned      *)
(* (err), the bytes handed to the traversal (data), the offset the reader  *)
(* handed over stands at (pos) and whether the call                        *)
(* panicked.  nx, so and wo are what the stream, a store read and a store  *)
(* write answer if the call gets to ask them.                              *)
(***************************************************************************)
TakeNext(s, nx) ==
    [s EXCEPT !.consumed = IF nx.t = "blk" THEN Append(@, nx.cid) ELSE @,
              !.streamEnd = IF nx.t = "blk" THEN @ ELSE nx.t,
              !.reads = @ + 1]

\* WriteOut without the Seek: the reader is left where io.Copy took it
WriteOutNoSeek(s, c, data, wo) ==
    LET s1 == [s EXCEPT !.bt = recordBlockOut(@, data)]
    IN IF wo # "ok" THEN [s1 EXCEPT !.err = ErrStore]
       ELSE [s1 EXCEPT !.store[c] = @ + 1, !.data = data, !.writes = @ + 1,
                       !.pos = BlockLen(data)]

\* lines 311-326: count the block out, write it under the link, rewind.
\* io.Copy leaves the reader at the end of the block, Seek takes it back
WriteOut(s, c, data, wo) ==
    LET s1 == [s EXCEPT !.bt = recordBlockOut(@, data)]
    IN IF wo # "ok" THEN [s1 EXCEPT !.err = ErrStore]
       ELSE LET copied == [s1 EXCEPT !.store[c] = @ + 1, !.data = data,
                                     !.writes = @ + 1, !.pos = BlockLen(data)]
            IN [copied EXCEPT !.pos = 0]

\* a seen link is taken from the store whatever ExpectDuplicatesIn says
FromStoreAlways(cfg, s, c) == c \in s.seen

\* lines 281-282, 292: the load is served by the store, not by the stream
FromStore(cfg, s, c) == c \in s.seen /\ ~cfg.ExpectDuplicatesIn

ReadOpener(cfg, s, c, nx, so, wo) ==
    IF FromStore(cfg, s, c)
    THEN \* duplicate block, rely on the store
         IF ~cfg.WriteDuplicatesOut
         THEN IF so = "ok" THEN [s EXCEPT !.data = c.mh]
              ELSE [s EXCEPT !.err = StoreReadErr(so)]
         ELSE \* the store's error is not looked at: io.ReadAll(nil) panics
              IF so = "ok" THEN WriteOut(s, c, c.mh, wo)
              ELSE [s EXCEPT !.panic = TRUE]
    ELSE LET s1 == TakeNext([s EXCEPT !.seen = @ \cup {c}], nx)
             rb == readNextBlock(nx, c)
         IN IF rb.err # NoError THEN [s1 EXCEPT !.err = rb.err]
            ELSE LET s2 == [s1 EXCEPT !.bt = recordBlockIn(@, rb.data)]
                 IN IF c \in s.seen /\ ~cfg.WriteDuplicatesOut
                    THEN [s2 EXCEPT !.data = rb.data]
                    ELSE WriteOut(s2, c, rb.data, wo)

\* ErrorCapturingReader.StorageReadOpener: the cell after a load that returned err
Capture(cell, err) == IF err # NoError THEN err ELSE cell


(***************************************************************************)
(* VerifyCar's checks of the CAR header.  A header is what                 *)
(* car.NewBlockReader makes of the first bytes: an error, or a version and *)
(* a list of roots.                                                        *)
(***************************************************************************)
Root == P(1)
RootLists == { <<>>, <<Root>>, <<R(1)>>, <<Root, P(2)>> }
BadHeader == [parsed |-> FALSE, version |-> 0, roots |-> <<>>]
Headers == {BadHeader} \cup [parsed : {TRUE}, version : 1..3, roots : RootLists]

\* CARv2 accepted whatever AllowCARv2 says
VersionOkAnyV2(cfg, h) == h.version = 1 \/ h.version = 2

VersionOk(cfg, h) == h.version = 1 \/ (h.version = 2 /\ cfg.AllowCARv2)
RootsOk(cfg, h) ==
    ~(cfg.CheckRootsMismatch /\ (Len(h.roots) # 1 \/ h.roots[1] # cfg.Root))

HeaderCheck(cfg, h) ==
    IF ~h.parsed THEN Combine("MalformedCar", Sentinel("HeaderError"))
    ELSE IF ~VersionOk(cfg, h) THEN ErrBadVersion
    ELSE IF ~RootsOk(cfg, h) THEN ErrBadRoots
    ELSE NoError

\* the budget without the root's load taken off
LinkBudgetOfWholeMax(maxBlocks) ==
    IF maxBlocks > 0 THEN [on |-> TRUE, n |-> maxBlocks]
    ELSE [on |-> FALSE, n |-> 0]

\* Traverse, lines 213-218: the engine's link budget
LinkBudgetOf(maxBlocks) ==
    IF maxBlocks > 0 THEN [on |-> TRUE, n |-> maxBlocks - 1]
    ELSE [on |-> FALSE, n |-> 0]

(***************************************************************************)
(* State of one verification call.                                         *)
(***************************************************************************)
VARIABLES
    cfg,          \* the Config
    dag,          \* what the blocks decode to
    wellBehaved,  \* whether the caller's store is well-behaved
    pc,           \* "start", "root", "walk", "done"
    entry,        \* "none", "VerifyCar", "VerifyBlockStream"
    header,       \* the CAR header VerifyCar read
    seen,         \* nextBlockReadOpener's seen set
    consumed,     \* the blocks the stream has handed out, in order
    streamEnd,    \* "open", "eof", "err"
    bt,           \* the writeTracker
    store,        \* committed writes per link
    ecrError,     \* ErrorCapturingReader.Error
    stack,        \* the links the walk has still to load, next first
    budget,       \* progress.Budget
    ctxCancelled, \* the caller's context is cancelled
    result,       \* what the call returned
    loads,        \* calls of the read opener so far
    last,         \* the last call of the read opener
    firstErr,     \* the first error a load returned
    swallowed,    \* load errors the engine has swallowed
    events,       \* what the loads have met: "mismatch", "eof", "store-notfound"
    revisited,    \* the links loaded when already in seen
    nexts,        \* calls of the stream's Next so far
    finalRead,    \* what VerifyBlockStream's read after the traversal returned
    afterCancel,  \* Next calls made, and blocks handed out, with the context cancelled
    called,       \* the function of the http and request packages applied, "none" before
    input,        \* its arguments
    output,       \* what it returned
    calls         \* two verifications running side by side on one store

\* one call of a function of trustlesshttp or trustlessutils
httpVars == << called, input, output >>
NotCalled == "none"
NoInput == [kind |-> "none"]
NoOutput == [none |-> TRUE]
\* no pair of verifications is running
NoCalls == [running |-> FALSE]

verifierVars == << cfg, dag, wellBehaved, pc, entry, header, seen, consumed, streamEnd,
           bt, store, ecrError, stack, budget, ctxCancelled, result, loads,
           last, firstErr, swallowed, events, revisited,
                    nexts, finalRead, afterCancel >>

vars == << verifierVars, httpVars, calls >>

Configs == [ Root : {Root}, AllowCARv2 : BOOLEAN, CheckRootsMismatch : BOOLEAN,
             ExpectDuplicatesIn : BOOLEAN, WriteDuplicatesOut : BOOLEAN,
             MaxBlocks : 0..MaxBudget ]

NoLoad == [cid |-> NoCid, revisit |-> FALSE, reads |-> 0, blocks |-> 0,
           writes |-> 0, err |-> NoError, data |-> 0, panic |-> FALSE,
           swallowed |-> FALSE, pos |-> 0]
Running == [status |-> "running", err |-> NoError, ret |-> ZeroTracker]

Start ==
    /\ pc = "start"
    /\ entry = "none"
    /\ header = BadHeader
    /\ seen = {}
    /\ consumed = <<>>
    /\ streamEnd = "open"
    /\ bt = ZeroTracker
    /\ store = [c \in Cids |-> 0]
    /\ ecrError = NoError
    /\ stack = <<>>
    /\ budget = LinkBudgetOf(0)
    /\ ctxCancelled = FALSE
    /\ result = Running
    /\ loads = 0
    /\ last = NoLoad
    /\ firstErr = NoError
    /\ swallowed = 0
    /\ events = {}
    /\ revisited = {}
    /\ nexts = 0
    /\ finalRead = "none"
    /\ afterCancel = [reads |-> 0, blocks |-> 0]

\* no function of the http and request packages is called during a verification
NoHttpCall ==
    /\ called = NotCalled
    /\ input = NoInput
    /\ output = NoOutput

Returned(e) == [status |-> "err", err |-> e, ret |-> ZeroTracker]
Panicked == [status |-> "panic", err |-> NoError, ret |-> ZeroTracker]
Succeeded(t) == [status |-> "ok", err |-> NoError, ret |-> t]


(***************************************************************************)
(* One load through the link system: ErrorCapturingReader wraps the read   *)
(* opener.  Call is the read opener's result on the current state; Loaded  *)
(* puts it in place.  A panic unwinds before the capturing reader sees a   *)
(* result.                                                                 *)
(***************************************************************************)
Call(c, nx, so, wo) ==
    ReadOpener(cfg,
               [seen |-> seen, consumed |-> consumed, streamEnd |-> streamEnd,
                bt |-> bt, store |-> store, err |-> NoError, data |-> 0,
                panic |-> FALSE, reads |-> 0, writes |-> 0, pos |-> 0],
               c, nx, so, wo)

Loaded(c, r, nx, so, swallow) ==
    /\ seen' = r.seen
    /\ consumed' = r.consumed
    /\ streamEnd' = r.streamEnd
    /\ bt' = r.bt
    /\ store' = r.store
    /\ ecrError' = IF r.panic THEN ecrError ELSE Capture(ecrError, r.err)
    /\ loads' = loads + 1
    /\ last' = [cid |-> c, revisit |-> c \in seen, reads |-> r.reads,
                blocks |-> Len(r.consumed) - Len(consumed), writes |-> r.writes,
                err |-> r.err, data |-> r.data, panic |-> r.panic,
                swallowed |-> swallow, pos |-> r.pos]
    /\ firstErr' = IF firstErr = NoError THEN r.err ELSE firstErr
    /\ events' = events
                 \cup (IF r.reads = 1 /\ nx.t = "blk" /\ nx.cid.mh # c.mh
                       THEN {"mismatch"} ELSE {})
                 \cup (IF r.reads = 1 /\ nx.t = "eof" THEN {"eof"} ELSE {})
                 \cup (IF c \in seen /\ ~cfg.ExpectDuplicatesIn /\ so = "notfound"
                       THEN {"store-notfound"} ELSE {})
    /\ revisited' = IF c \in seen THEN revisited \cup {c} ELSE revisited
    /\ nexts' = nexts + r.reads
    /\ afterCancel' = IF ctxCancelled
                       THEN [reads |-> afterCancel.reads + r.reads,
                             blocks |-> afterCancel.blocks + Len(r.consumed) - Len(consumed)]
                       ELSE afterCancel

\* the read after the traversal taken for success unless it fails
FinalCheckNoExtraneous(nx, t) ==
    IF nx.t = "err" THEN Returned(ErrStream) ELSE Succeeded(t)

\* VerifyBlockStream, lines 165-179: after a traversal without error
FinalCheck(nx, t) ==
    IF nx.t = "blk" THEN Returned(ErrExtraneousBlock)
    ELSE IF nx.t = "err" THEN Returned(ErrStream)
    ELSE Succeeded(t)

(***************************************************************************)
(* Actions.                                                                *)
(***************************************************************************)
\* VerifyCar up to its call of VerifyBlockStream
VerifyCar ==
    /\ pc = "start"
    /\ \E h \in Headers :
         /\ header' = h
         /\ IF HeaderCheck(cfg, h) # NoError
            THEN /\ result' = Returned(HeaderCheck(cfg, h))
                 /\ pc' = "done"
            ELSE /\ result' = result
                 /\ pc' = "root"
    /\ entry' = "VerifyCar"
    /\ UNCHANGED << httpVars, calls >>
    /\ UNCHANGED << cfg, dag, wellBehaved, seen, consumed, streamEnd, bt, store,
                    ecrError, stack, budget, ctxCancelled, loads, last, firstErr,
                    swallowed, events, revisited,
                    nexts, finalRead, afterCancel >>

\* VerifyBlockStream called on a stream of the caller's
VerifyBlockStream ==
    /\ pc = "start"
    /\ entry' = "VerifyBlockStream"
    /\ pc' = "root"
    /\ UNCHANGED << httpVars, calls >>
    /\ UNCHANGED << cfg, dag, wellBehaved, header, seen, consumed, streamEnd, bt,
                    store, ecrError, stack, budget, ctxCancelled, result, loads,
                    last, firstErr, swallowed, events, revisited,
                    nexts, finalRead, afterCancel >>

\* Traverse up to WalkAdv: the budget is set and loadNode loads the root
LoadRoot ==
    /\ pc = "root"
    /\ budget' = LinkBudgetOf(cfg.MaxBlocks)
    /\ \E nx \in NextOutcomes(streamEnd), wo \in StoreWrites(wellBehaved) :
         LET r == Call(cfg.Root, nx, "ok", wo)
         IN /\ Loaded(cfg.Root, r, nx, "ok", FALSE)
            /\ IF r.panic
               THEN result' = Panicked /\ pc' = "done" /\ stack' = stack
               ELSE IF r.err # NoError
               THEN /\ result' = Returned(traversalError(Wrap(Wrap(r.err))))
                    /\ pc' = "done"
                    /\ stack' = stack
               ELSE /\ result' = result
                    /\ pc' = "walk"
                    /\ stack' = Links(dag, cfg.Root)
    /\ UNCHANGED << httpVars, calls >>
    /\ UNCHANGED << cfg, dag, wellBehaved, entry, header, ctxCancelled, swallowed,
                    finalRead >>

\* the walk meets a link with budget left and loads it; the engine returns the
\* load's error, or swallows it and walks on
WalkLoad ==
    /\ pc = "walk"
    /\ stack # <<>>
    /\ budget.on => budget.n > 0
    /\ budget' = IF budget.on THEN [budget EXCEPT !.n = @ - 1] ELSE budget
    /\ \E nx \in NextOutcomes(streamEnd), so \in StoreReads(wellBehaved, store, Head(stack)),
          wo \in StoreWrites(wellBehaved),
          swallow \in IF swallowed < MaxSwallowed THEN BOOLEAN ELSE {FALSE} :
         LET c == Head(stack)
             r == Call(c, nx, so, wo)
         IN /\ Loaded(c, r, nx, so, swallow /\ r.err # NoError /\ ~r.panic)
            /\ swallowed' = IF swallow /\ r.err # NoError /\ ~r.panic
                            THEN swallowed + 1 ELSE swallowed
            /\ IF r.panic
               THEN result' = Panicked /\ pc' = "done" /\ stack' = stack
               ELSE IF r.err # NoError /\ ~swallow
               THEN /\ result' = Returned(traversalError(Wrap(r.err)))
                    /\ pc' = "done"
                    /\ stack' = stack
               ELSE /\ result' = result
                    /\ pc' = "walk"
                    /\ stack' = IF r.err # NoError THEN Tail(stack)
                                ELSE Links(dag, c) \o Tail(stack)
    /\ UNCHANGED << httpVars, calls >>
    /\ UNCHANGED << cfg, dag, wellBehaved, entry, header, ctxCancelled, finalRead >>

\* the walk meets a link with no budget left
WalkBudget ==
    /\ pc = "walk"
    /\ stack # <<>>
    /\ budget.on /\ budget.n <= 0
    /\ result' = Returned(traversalError(ErrBudgetExceeded))
    /\ pc' = "done"
    /\ UNCHANGED << httpVars, calls >>
    /\ UNCHANGED << cfg, dag, wellBehaved, entry, header, seen, consumed,
                    streamEnd, bt, store, ecrError, stack, budget, ctxCancelled,
                    loads, last, firstErr, swallowed, events, revisited,
                    nexts, finalRead, afterCancel >>

\* the engine, which holds the context, may notice that it is cancelled
WalkCancelled ==
    /\ pc = "walk"
    /\ ctxCancelled
    /\ result' = Returned(traversalError(ErrCanceled))
    /\ pc' = "done"
    /\ UNCHANGED << httpVars, calls >>
    /\ UNCHANGED << cfg, dag, wellBehaved, entry, header, seen, consumed,
                    streamEnd, bt, store, ecrError, stack, budget, ctxCancelled,
                    loads, last, firstErr, swallowed, events, revisited,
                    nexts, finalRead, afterCancel >>

\* WalkAdv returns nil: Traverse looks at the captured error, VerifyBlockStream
\* reads the stream once more
Finish ==
    /\ pc = "walk"
    /\ stack = <<>>
    /\ IF ecrError # NoError
       THEN /\ result' = Returned(traversalError(Wrap(ecrError)))
            /\ UNCHANGED << consumed, streamEnd, nexts, finalRead, afterCancel >>
       ELSE \E nx \in NextOutcomes(streamEnd) :
              /\ result' = FinalCheck(nx, bt)
              /\ consumed' = IF nx.t = "blk" THEN Append(consumed, nx.cid) ELSE consumed
              /\ streamEnd' = IF nx.t = "blk" THEN streamEnd ELSE nx.t
              /\ nexts' = nexts + 1
              /\ finalRead' = nx.t
              /\ afterCancel' = IF ctxCancelled
                                 THEN [reads |-> afterCancel.reads + 1,
                                       blocks |-> afterCancel.blocks
                                                  + (IF nx.t = "blk" THEN 1 ELSE 0)]
                                 ELSE afterCancel
    /\ pc' = "done"
    /\ UNCHANGED << httpVars, calls >>
    /\ UNCHANGED << cfg, dag, wellBehaved, entry, header, seen, bt, store,
                    ecrError, stack, budget, ctxCancelled, loads, last, firstErr,
                    swallowed, events, revisited >>

\* the caller cancels the context
Cancel ==
    /\ pc # "done"
    /\ ~ctxCancelled
    /\ ctxCancelled' = TRUE
    /\ UNCHANGED << httpVars, calls >>
    /\ UNCHANGED << cfg, dag, wellBehaved, pc, entry, header, seen, consumed,
                    streamEnd, bt, store, ecrError, stack, budget, result, loads,
                    last, firstErr, swallowed, events, revisited,
                    nexts, finalRead, afterCancel >>

Next ==
    \/ VerifyCar
    \/ VerifyBlockStream
    \/ LoadRoot
    \/ WalkLoad
    \/ WalkBudget
    \/ WalkCancelled
    \/ Finish
    \/ Cancel

\* every DAG, duplicate policy, budget and store, behind the strictest header checks
Init ==
    /\ cfg \in Configs
    /\ ~cfg.AllowCARv2 /\ cfg.CheckRootsMismatch
    /\ dag \in Dags
    /\ wellBehaved \in BOOLEAN
    /\ Start
    /\ NoHttpCall
    /\ calls = NoCalls

Spec == Init /\ [][Next]_vars

\* every combination of the header checks, on one DAG
InitHeader ==
    /\ cfg \in Configs
    /\ cfg.ExpectDuplicatesIn /\ cfg.WriteDuplicatesOut /\ cfg.MaxBlocks <= 1
    /\ dag = [Leaf EXCEPT ![1] = <<P(2), P(3)>>]
    /\ wellBehaved = TRUE
    /\ Start
    /\ NoHttpCall
    /\ calls = NoCalls

SpecHeader == InitHeader /\ [][Next]_vars


(***************************************************************************)
(* What a depth-first walk of the DAG loads, computed apart from the       *)
(* machine above: the root, then under each block its links in order,      *)
(* every link each time it is met.                                         *)
(***************************************************************************)
RECURSIVE Dfs(_, _), DfsAll(_, _)
Dfs(d, c) == <<c>> \o DfsAll(d, Links(d, c))
DfsAll(d, links) ==
    IF links = <<>> THEN <<>> ELSE Dfs(d, Head(links)) \o DfsAll(d, Tail(links))

FirstVisit(L, i) == \A j \in 1..(i - 1) : L[j] # L[i]

\* the loads that take a block from the stream: first visits, and revisits too
\* when duplicates are expected in
RECURSIVE FromStream(_, _, _)
FromStream(L, i, dupsIn) ==
    IF i > Len(L) THEN <<>>
    ELSE (IF dupsIn \/ FirstVisit(L, i) THEN <<L[i]>> ELSE <<>>)
         \o FromStream(L, i + 1, dupsIn)

MhSeq(q) == [i \in DOMAIN q |-> q[i].mh]
IsPrefix(a, b) == Len(a) <= Len(b) /\ \A i \in DOMAIN a : a[i] = b[i]

ExpectedLoads == Dfs(dag, cfg.Root)
ExpectedStream == MhSeq(FromStream(ExpectedLoads, 1, cfg.ExpectDuplicatesIn))

\* what the stream has shown so far is what the exact stream would show
StreamIsExact ==
    /\ IsPrefix(MhSeq(consumed), ExpectedStream)
    /\ streamEnd # "err"
    /\ streamEnd = "eof" => Len(consumed) = Len(ExpectedStream)

Done == pc = "done"
Ok == result.status = "ok"
Failed(k) == result.status = "err" /\ ErrIs(result.err, k)

(***************************************************************************)
(* C1.  With a well-behaved store, no block budget and no cancellation, a  *)
(* verification (of a stream, or of a CAR whose header was accepted)       *)
(* succeeds if and only if the stream is exactly the blocks                *)
(* the walk loads from the root, in load order (one per first visit of a   *)
(* CID, one per revisit too when ExpectDuplicatesIn), and then ends.       *)
(***************************************************************************)
Traversed == loads > 0
C1_Pre == Traversed /\ wellBehaved /\ cfg.MaxBlocks = 0 /\ ~ctxCancelled
C1_SucceedsIffExactStream ==
    (Done /\ C1_Pre) =>
        /\ Ok <=> StreamIsExact
        /\ Ok => streamEnd = "eof" /\ MhSeq(consumed) = ExpectedStream

\* root, child1, child2 in order verifies with BlocksIn = 3
C1_Witness ==
    /\ Done /\ C1_Pre /\ Ok
    /\ dag[1] = <<P(2), P(3)>> /\ dag[2] = <<>>
    /\ consumed = <<P(1), P(2), P(3)>>
    /\ result.ret.blocksIn = 3


(***************************************************************************)
(* C2.  Whenever a load takes from the stream a block whose multihash is   *)
(* not the link's, the verification fails with UnexpectedBlock; a block    *)
(* with the link's multihash under another codec is accepted.              *)
(***************************************************************************)
C2_MismatchIsUnexpectedBlock ==
    /\ (Done /\ "mismatch" \in events) => Failed("UnexpectedBlock")
    /\ (last.blocks = 1 /\ finalRead = "none"
          /\ consumed[Len(consumed)].mh = last.cid.mh)
       => ~ErrIs(last.err, "UnexpectedBlock")

(***************************************************************************)
(* C3.  Whenever a verification met a block it could not obtain (the       *)
(* stream at EOF when a block was expected, or the store answering         *)
(* NotFound), the error it returns is MissingBlock.                        *)
(***************************************************************************)
C3_NotFoundIsMissingBlock ==
    (Done /\ events \cap {"eof", "store-notfound"} # {}) => Failed("MissingBlock")

(***************************************************************************)
(* C4.  After a traversal without error the stream is read exactly once    *)
(* more: EOF is success, a block is ExtraneousBlock, another error is      *)
(* returned as it is; an accepted stream holds no block beyond those the   *)
(* loads took.                                                             *)
(***************************************************************************)
C4_OneMoreRead ==
    /\ finalRead = "eof" => Ok
    /\ finalRead = "blk" => Failed("ExtraneousBlock")
    /\ finalRead = "err" => result = Returned(ErrStream)
    /\ Ok => /\ finalRead = "eof" /\ streamEnd = "eof"
             /\ nexts = Len(consumed) + 1
             /\ Len(consumed) = result.ret.blocksIn
    /\ (Done /\ finalRead = "none") => ~Ok

\* root, child1, child2 and one unlinked block more
C4_Witness ==
    /\ Done /\ Failed("ExtraneousBlock")
    /\ Len(consumed) = Len(ExpectedStream) + 1
    /\ IsPrefix(ExpectedStream, MhSeq(consumed))


(***************************************************************************)
(* C5.  A load of a link already in seen takes exactly one block from the  *)
(* stream, which must match, when ExpectDuplicatesIn; it takes none and    *)
(* has its bytes from the store when not.  It writes the block again if    *)
(* and only if WriteDuplicatesOut.  A load of a link not yet seen takes    *)
(* one block from the stream and writes it, whatever the two flags are.    *)
(***************************************************************************)
LastLoadOk == last.cid # NoCid /\ last.err = NoError /\ ~last.panic
LastBlock == consumed[Len(consumed) - (IF finalRead = "blk" THEN 1 ELSE 0)]
C5_DuplicatePolicy ==
    last.cid # NoCid =>
        /\ (last.revisit /\ cfg.ExpectDuplicatesIn) =>
              /\ last.reads = 1
              /\ LastLoadOk => last.blocks = 1 /\ LastBlock.mh = last.cid.mh
              /\ (last.blocks = 1 /\ LastBlock.mh # last.cid.mh)
                    => ErrIs(last.err, "UnexpectedBlock")
        /\ (last.revisit /\ ~cfg.ExpectDuplicatesIn) =>
              /\ last.reads = 0 /\ last.blocks = 0
              /\ LastLoadOk => last.data = last.cid.mh /\ store[last.cid] > 0
        /\ (last.revisit /\ LastLoadOk) =>
              (last.writes = 1 <=> cfg.WriteDuplicatesOut)
        /\ ~last.revisit =>
              /\ last.reads = 1
              /\ LastLoadOk => /\ last.blocks = 1 /\ last.writes = 1
                               /\ LastBlock.mh = last.cid.mh
        /\ last.writes <= 1 /\ last.reads <= 1

\* a revisit with duplicates expected in and not written out: one block
\* taken from the stream, nothing written
C5_Witness ==
    /\ LastLoadOk /\ last.revisit
    /\ cfg.ExpectDuplicatesIn /\ ~cfg.WriteDuplicatesOut
    /\ last.blocks = 1 /\ last.writes = 0

(***************************************************************************)
(* C6.  In a successful verification BlocksIn = BlocksOut if and only if   *)
(* no link was revisited or ExpectDuplicatesIn = WriteDuplicatesOut; the   *)
(* same holds of BytesIn = BytesOut when no revisited block is empty.      *)
(***************************************************************************)
PoliciesAgree == cfg.ExpectDuplicatesIn = cfg.WriteDuplicatesOut
C6_InEqualsOut ==
    (Done /\ Ok) =>
        /\ (result.ret.blocksIn = result.ret.blocksOut)
              <=> (revisited = {} \/ PoliciesAgree)
        /\ (\A c \in revisited : BlockLen(c.mh) > 0) =>
              ((result.ret.bytesIn = result.ret.bytesOut)
                  <=> (revisited = {} \/ PoliciesAgree))

\* duplicates in the stream and stripped on the way out
C6_Witness ==
    /\ Done /\ Ok /\ revisited # {}
    /\ cfg.ExpectDuplicatesIn /\ ~cfg.WriteDuplicatesOut
    /\ result.ret.blocksIn = result.ret.blocksOut + 1
    /\ result.ret.bytesIn > result.ret.bytesOut

(***************************************************************************)
(* C7.  VerifyCar goes on to the blocks if and only if the header's        *)
(* version is 1, or 2 with AllowCARv2, and CheckRootsMismatch is unset or  *)
(* the header lists the one root Config.Root.  An unparsable header is     *)
(* MalformedCar, a version refused is BadVersion, roots refused are        *)
(* BadRoots; none of these reads a block or writes to the store.           *)
(***************************************************************************)
HeaderVersionGood ==
    header.version = 1 \/ (header.version = 2 /\ cfg.AllowCARv2 = TRUE)
HeaderRootsGood == cfg.CheckRootsMismatch = FALSE \/ header.roots = <<cfg.Root>>
HeaderRefused ==
    Done /\ loads = 0 /\ nexts = 0 /\ consumed = <<>>
         /\ \A c \in Cids : store[c] = 0
C7_HeaderChecks ==
    entry = "VerifyCar" =>
        /\ (pc = "root" \/ loads > 0)
              <=> (header.parsed /\ HeaderVersionGood /\ HeaderRootsGood)
        /\ ~header.parsed => HeaderRefused /\ Failed("MalformedCar")
        /\ (header.parsed /\ ~HeaderVersionGood) =>
              HeaderRefused /\ result = Returned(ErrBadVersion)
        /\ (header.parsed /\ HeaderVersionGood /\ ~HeaderRootsGood) =>
              HeaderRefused /\ result = Returned(ErrBadRoots)

\* a CARv2 header accepted with AllowCARv2, its one root checked
C7_Witness ==
    /\ entry = "VerifyCar" /\ Done /\ Ok
    /\ header.version = 2 /\ cfg.AllowCARv2 /\ cfg.CheckRootsMismatch

C9_CancelStopsReads ==
    entry = "VerifyCar" =>
        /\ afterCancel.blocks = 0
        /\ (Done /\ afterCancel.reads > 0) =>
              (Failed("Canceled") \/ Failed("StreamError"))

(***************************************************************************)
(* C10.  The capturing reader's cell holds the first error a load          *)
(* returned: a later failing load does not replace it, a later successful  *)
(* load does not clear it; and a call whose cell is set does not succeed.  *)
(***************************************************************************)
C10_CellHoldsFirstError ==
    /\ ecrError = firstErr
    /\ (Done /\ ecrError # NoError) => ~Ok


(***************************************************************************)
(* C28.  A block handed to the traversal on the first visit of its link    *)
(* is already written to the store under that link, whole, and the reader  *)
(* stands at its first byte; so with ExpectDuplicatesIn false and a store  *)
(* that keeps what it is given, a revisit of a link written before is      *)
(* served, again from the first byte.                                      *)
(***************************************************************************)
C28_WrittenBeforeHandedOut ==
    /\ (LastLoadOk /\ ~last.revisit) =>
          /\ last.writes = 1
          /\ store[last.cid] >= 1
          /\ last.data = last.cid.mh
          /\ last.pos = 0
    /\ (last.cid # NoCid /\ last.revisit /\ ~cfg.ExpectDuplicatesIn
          /\ wellBehaved /\ store[last.cid] >= 1) =>
          /\ LastLoadOk
          /\ last.data = last.cid.mh
          /\ last.pos = 0

\* a revisit served from the store, of a block that is not empty
C28_Witness ==
    /\ LastLoadOk /\ last.revisit
    /\ ~cfg.ExpectDuplicatesIn /\ wellBehaved
    /\ store[last.cid] >= 1
    /\ BlockLen(last.data) > 0 /\ last.pos = 0

(***************************************************************************)
(* C29.  With ExpectDuplicatesIn false, a revisit that the store fails to  *)
(* serve ends the call with the store's error, whatever WriteDuplicatesOut *)
(* is: no panic, nothing written for the revisit, no further load.         *)
(***************************************************************************)
StoreReadFailed ==
    /\ last.cid # NoCid /\ last.revisit /\ ~cfg.ExpectDuplicatesIn
    /\ IF cfg.WriteDuplicatesOut THEN last.panic ELSE last.err # NoError
C29_StoreErrorReturned ==
    StoreReadFailed =>
        /\ ~last.panic
        /\ last.writes = 0
        /\ Done
        /\ result.status = "err"
        /\ KindsOf(last.err) \subseteq KindsOf(result.err)

(***************************************************************************)
(* C30.  Every load adds to BlocksIn and BytesIn the block it took from    *)
(* the stream and accepted, and to BlocksOut and BytesOut the write it     *)
(* began, and no other step moves the counters; in a successful            *)
(* verification the store was written once for every link loaded when      *)
(* WriteDuplicatesOut is false, once for every load when it is true, and   *)
(* holds every link in the seen set.                                       *)
(***************************************************************************)
AcceptedIn ==
    IF last.blocks = 1 /\ consumed[Len(consumed)].mh = last.cid.mh THEN 1 ELSE 0
WriteFailed ==
    /\ last.err = ErrStore
    /\ ~(last.revisit /\ ~cfg.ExpectDuplicatesIn /\ ~cfg.WriteDuplicatesOut)
WritesBegun == IF last.writes = 1 \/ WriteFailed THEN 1 ELSE 0
BytesOf(c, n) == n * BlockLen(c.mh)
Occurrences(L, c) == Cardinality({i \in DOMAIN L : L[i] = c})
CountersFollowLoads ==
    IF loads' # loads
    THEN /\ bt'.blocksIn = bt.blocksIn + AcceptedIn'
         /\ bt'.bytesIn = bt.bytesIn + BytesOf(last'.cid, AcceptedIn')
         /\ bt'.blocksOut = bt.blocksOut + WritesBegun'
         /\ bt'.bytesOut = bt.bytesOut + BytesOf(last'.cid, WritesBegun')
    ELSE bt' = bt
WrittenOnSuccess ==
    (Done /\ Ok) =>
        /\ \A c \in Cids :
              store[c] = IF cfg.WriteDuplicatesOut
                         THEN Occurrences(ExpectedLoads, c)
                         ELSE IF Occurrences(ExpectedLoads, c) > 0 THEN 1 ELSE 0
        /\ \A c \in seen : store[c] >= 1
        /\ result.ret = bt
C30_CountersAndWrites == [][CountersFollowLoads]_vars /\ []WrittenOnSuccess

\* a successful verification that wrote a revisited block a second time
C30_Witness ==
    /\ Done /\ Ok
    /\ cfg.WriteDuplicatesOut /\ ~cfg.ExpectDuplicatesIn
    /\ \E c \in revisited : store[c] = 2
    /\ bt.blocksOut = bt.blocksIn + 1


(***************************************************************************)
(* The request and http packages: pure functions over strings.  A string   *)
(* is a sequence of symbols; a symbol is one character that some parser    *)
(* treats specially (a separator, a sign, a digit, a space) or a word, a   *)
(* run of other characters that no parser looks into.                      *)
(***************************************************************************)

\* int64 is modelled as -(MaxInt + 1) .. MaxInt
MaxInt == 12
\* strings offered to ParseByteRange have at most MaxRangeLen characters
MaxRangeLen == 4

\* a pointer is a sequence of at most one element
Nil == << >>
Ptr(v) == << v >>
Int64 == (-(MaxInt + 1))..MaxInt

Digit == <<"0", "1", "2", "3", "4", "5", "6", "7", "8", "9">>
IsDigit(c) == \E d \in 1..10 : Digit[d] = c
DigitVal(c) == (CHOOSE d \in 1..10 : Digit[d] = c) - 1

\* strings.Split(s, sep) for a one-character separator
RECURSIVE Split(_, _)
Split(s, sep) ==
    IF \A i \in 1..Len(s) : s[i] # sep
    THEN << s >>
    ELSE LET i == CHOOSE k \in 1..Len(s) :
                     s[k] = sep /\ \A j \in 1..(k - 1) : s[j] # sep
         IN << SubSeq(s, 1, i - 1) >> \o Split(SubSeq(s, i + 1, Len(s)), sep)

\* strings.TrimSpace
RECURSIVE TrimSpace(_)
TrimSpace(s) ==
    IF s = << >> THEN s
    ELSE IF Head(s) = " " THEN TrimSpace(Tail(s))
    ELSE IF s[Len(s)] = " " THEN TrimSpace(SubSeq(s, 1, Len(s) - 1))
    ELSE s

\* strconv.FormatInt(n, 10), and the %d verb
RECURSIVE FormatUint(_)
FormatUint(n) ==
    IF n < 10 THEN << Digit[n + 1] >>
    ELSE FormatUint(n \div 10) \o << Digit[(n % 10) + 1] >>
FormatInt(n) == IF n < 0 THEN << "-" >> \o FormatUint(-n) ELSE FormatUint(n)

\* strconv.ParseUint(s, 10, 64): the value, or -1 for a syntax error; the
\* accumulation stops growing once it is out of every int64's reach
RECURSIVE ParseUintFrom(_, _)
ParseUintFrom(s, acc) ==
    IF s = << >> THEN acc
    ELSE IF ~IsDigit(Head(s)) THEN -1
    ELSE LET v == acc * 10 + DigitVal(Head(s))
         IN ParseUintFrom(Tail(s), IF v > MaxInt + 1 THEN MaxInt + 2 ELSE v)
ParseUint(s) == IF s = << >> THEN -1 ELSE ParseUintFrom(s, 0)

\* strconv.ParseInt without its sign
ParseIntDropsSign(s) ==
    LET un == ParseUint(s)
    IN IF un < 0 \/ un > MaxInt THEN [ok |-> FALSE, val |-> 0]
       ELSE [ok |-> TRUE, val |-> un]

\* strconv.ParseInt(s, 10, 64)
ParseInt(s) ==
    IF s = << >> THEN [ok |-> FALSE, val |-> 0]
    ELSE LET neg == Head(s) = "-"
             digits == IF Head(s) \in {"+", "-"} THEN Tail(s) ELSE s
             un == ParseUint(digits)
         IN IF un < 0 THEN [ok |-> FALSE, val |-> 0]
            ELSE IF ~neg /\ un > MaxInt THEN [ok |-> FALSE, val |-> 0]
            ELSE IF neg /\ un > MaxInt + 1 THEN [ok |-> FALSE, val |-> 0]
            ELSE [ok |-> TRUE, val |-> IF neg THEN -un ELSE un]

\* ByteRange; To is a pointer
ByteRange(from, to) == [From |-> from, To |-> to]
ByteRanges == { ByteRange(f, t) : f \in Int64, t \in {Nil} \cup { Ptr(n) : n \in Int64 } }

\* the methods of ByteRange have a pointer receiver
IsDefault(br) == br = Nil \/ (br[1].From = 0 /\ br[1].To = Nil)

ByteRangeString(br) ==
    IF IsDefault(br) THEN << "0", ":", "*" >>
    ELSE LET to == IF br[1].To # Nil THEN FormatInt(br[1].To[1]) ELSE << "*" >>
         IN FormatInt(br[1].From) \o << ":" >> \o to

\* trustlessutils.ParseByteRange: the range and whether an error is returned
ParseByteRange(s) ==
    IF s = << >> THEN [br |-> ByteRange(0, Nil), err |-> FALSE]
    ELSE LET parts == Split(s, ":")
         IN IF Len(parts) # 2 THEN [br |-> ByteRange(0, Nil), err |-> TRUE]
            ELSE LET from == ParseInt(parts[1])
                     to == ParseInt(parts[2])
                 IN IF ~from.ok THEN [br |-> ByteRange(from.val, Nil), err |-> TRUE]
                    ELSE IF parts[2] = << "*" >>
                         THEN [br |-> ByteRange(from.val, Nil), err |-> FALSE]
                    ELSE IF ~to.ok
                         THEN [br |-> ByteRange(from.val, Nil), err |-> TRUE]
                    ELSE [br |-> ByteRange(from.val, Ptr(to.val)), err |-> FALSE]

\* url.Values of a request: whether the key is there, and its first value
Query(has, value) == [has |-> has, value |-> value]

\* trustlesshttp.ParseByteRange(req)
HttpParseByteRange(q) ==
    IF q.has
    THEN LET r == ParseByteRange(q.value)
         IN IF r.err THEN [br |-> Nil, err |-> TRUE]
            ELSE [br |-> Ptr(r.br), err |-> FALSE]
    ELSE [br |-> Nil, err |-> FALSE]

\* the characters of the strings offered as byte ranges
RangeChars == {"0", "1", "-", "+", ":", "*", "x"}
RangeStrings == UNION { [1..n -> RangeChars] : n \in 0..MaxRangeLen }

(***************************************************************************)
(* Content types (http/constants.go) and their parser (http/parse.go).     *)
(* A float32 quality is counted in ten-thousandths; NaN is a value that    *)
(* every comparison answers false for.                                     *)
(***************************************************************************)
One == 10000
NaN == -(One * One)
Inf == One * One
Lt(a, b) == a # NaN /\ b # NaN /\ a < b
Gt(a, b) == a # NaN /\ b # NaN /\ a > b
Ge(a, b) == a # NaN /\ b # NaN /\ a >= b

MimeTypeCar == << "application/vnd.ipld.car" >>
MimeTypeRaw == << "application/vnd.ipld.raw" >>
MimeTypeCarVersion == << "1" >>
FormatParameterCar == << "car" >>
FormatParameterRaw == << "raw" >>
ContentTypeOrderDfs == << "dfs" >>
ContentTypeOrderUnk == << "unk" >>
WildcardMimes == { << "*/*" >>, << "application/*" >> }

ContentType(mime, order, dups, quality) ==
    [MimeType |-> mime, Order |-> order, Duplicates |-> dups, Quality |-> quality]
\* ContentType{}
ZeroContentType == ContentType(<< >>, << >>, FALSE, 0)
DefaultContentType == ContentType(MimeTypeCar, ContentTypeOrderDfs, TRUE, One)
WithMimeType(ct, mime) == [ct EXCEPT !.MimeType = mime]
IsCar(ct) == ct.MimeType = MimeTypeCar \/ ct.MimeType \in WildcardMimes
IsRaw(ct) == ct.MimeType = MimeTypeRaw

\* the decimal digits of n, without the zeros at its end
RECURSIVE StripZeros(_)
StripZeros(ds) ==
    IF ds # << >> /\ ds[Len(ds)] = "0" THEN StripZeros(SubSeq(ds, 1, Len(ds) - 1))
    ELSE ds
\* n in 0..9999 as four digits
FourDigits(n) ==
    << Digit[(n \div 1000) + 1], Digit[((n \div 100) % 10) + 1],
       Digit[((n \div 10) % 10) + 1], Digit[(n % 10) + 1] >>

\* strconv.FormatFloat(q, 'g', 3, 32) for 0 <= q < 1: three significant
\* digits at most, no exponent from 0.0001 up
FormatFloat(q) ==
    LET r == IF q >= 1000 THEN ((q + 5) \div 10) * 10 ELSE q
    IN IF r >= One THEN << "1" >>
       ELSE IF r = 0 THEN << "0" >>
       ELSE << "0", "." >> \o StripZeros(FourDigits(r))

\* ContentType.String that leaves dups out
ContentTypeStringNoDups(ct) ==
    ct.MimeType
    \o (IF ct.MimeType = MimeTypeCar
        THEN << ";", "version", "=" >> \o MimeTypeCarVersion
             \o << ";", "order", "=" >> \o ct.Order
        ELSE << >>)
    \o (IF Lt(ct.Quality, One) /\ Ge(ct.Quality, 0)
        THEN << ";", "q", "=" >> \o FormatFloat(ct.Quality) ELSE << >>)

\* ContentType.String
ContentTypeString(ct) ==
    ct.MimeType
    \o (IF ct.MimeType = MimeTypeCar
        THEN << ";", "version", "=" >> \o MimeTypeCarVersion
             \o << ";", "order", "=" >> \o ct.Order
             \o (IF ct.Duplicates THEN << ";", "dups", "=", "y" >>
                 ELSE << ";", "dups", "=", "n" >>)
        ELSE << >>)
    \o (IF Lt(ct.Quality, One) /\ Ge(ct.Quality, 0)
        THEN << ";", "q", "=" >> \o FormatFloat(ct.Quality) ELSE << >>)

\* the value of a run of digits, and of the digits after the point in
\* ten-thousandths
RECURSIVE DecVal(_, _)
DecVal(ds, acc) ==
    IF ds = << >> THEN acc ELSE DecVal(Tail(ds), acc * 10 + DigitVal(Head(ds)))
FracVal(ds) ==
    DecVal(SubSeq(ds \o << "0", "0", "0", "0" >>, 1, 4), 0)

\* strconv.ParseFloat(s, 32): decimal literals without exponent, NaN and Inf
ParseFloat(s) ==
    IF s \in { << "NaN" >>, << "nan" >> } THEN [ok |-> TRUE, val |-> NaN]
    ELSE IF s \in { << "Inf" >>, << "+", "Inf" >> } THEN [ok |-> TRUE, val |-> Inf]
    ELSE IF s = << "-", "Inf" >> THEN [ok |-> TRUE, val |-> -Inf]
    ELSE IF s = << >> THEN [ok |-> FALSE, val |-> 0]
    ELSE LET neg == Head(s) = "-"
             body == IF Head(s) \in {"+", "-"} THEN Tail(s) ELSE s
             parts == Split(body, ".")
             int == parts[1]
             frac == IF Len(parts) = 2 THEN parts[2] ELSE << >>
         IN IF \/ Len(parts) > 2
               \/ (int = << >> /\ frac = << >>)
               \/ \E i \in 1..Len(int) : ~IsDigit(int[i])
               \/ \E i \in 1..Len(frac) : ~IsDigit(frac[i])
            THEN [ok |-> FALSE, val |-> 0]
            ELSE LET mag == DecVal(int, 0) * One + FracVal(frac)
                 IN [ok |-> TRUE, val |-> IF neg THEN -mag ELSE mag]

Invalid == [ct |-> ZeroContentType, valid |-> FALSE]

\* err != nil || quality < 0 || quality > 1
QualityRefused(quality) ==
    ~quality.ok \/ Lt(quality.val, 0) \/ Gt(quality.val, One)

Parsed(contentType) == [ct |-> contentType, valid |-> TRUE]

\* the switch on attr that parseContentType makes for the car mime
CarParam(attr, value, contentType) ==
    IF attr = << "dups" >>
    THEN IF value = << "y" >> THEN Parsed([contentType EXCEPT !.Duplicates = TRUE])
         ELSE IF value = << "n" >>
              THEN Parsed([contentType EXCEPT !.Duplicates = FALSE])
         ELSE Invalid
    ELSE IF attr = << "version" >>
    THEN IF value = MimeTypeCarVersion THEN Parsed(contentType) ELSE Invalid
    ELSE IF attr = << "order" >>
    THEN IF value = << "dfs" >>
         THEN Parsed([contentType EXCEPT !.Order = ContentTypeOrderDfs])
         ELSE IF value = << "unk" >>
              THEN Parsed([contentType EXCEPT !.Order = ContentTypeOrderUnk])
         ELSE Invalid
    ELSE Parsed(contentType)

\* the loop of parseContentType over typeParts[1:]
RECURSIVE ParseParts(_, _, _)
ParseParts(parts, mime, contentType) ==
    IF parts = << >> THEN Parsed(contentType)
    ELSE
      LET pair == Split(Head(parts), "=")
      IN IF Len(pair) # 2 THEN ParseParts(Tail(parts), mime, contentType)
         ELSE
           LET attr == TrimSpace(pair[1])
               value == TrimSpace(pair[2])
               car == IF mime = MimeTypeCar THEN CarParam(attr, value, contentType)
                      ELSE Parsed(contentType)
               quality == ParseFloat(value)
           IN IF ~car.valid THEN Invalid
              ELSE IF attr = << "q" >>
              THEN IF QualityRefused(quality) THEN Invalid
                   ELSE ParseParts(Tail(parts), mime,
                                   [car.ct EXCEPT !.Quality = quality.val])
              ELSE ParseParts(Tail(parts), mime, car.ct)

parseContentType(h, strictType) ==
    LET typeParts == Split(h, ";")
        mime == TrimSpace(typeParts[1])
    IN IF \/ mime = MimeTypeCar
          \/ mime = MimeTypeRaw
          \/ (~strictType /\ mime \in WildcardMimes)
       THEN ParseParts(Tail(typeParts), mime,
                       WithMimeType(DefaultContentType, mime))
       ELSE Invalid

ParseContentType(contentTypeHeader) == parseContentType(contentTypeHeader, TRUE)

\* filepath.Ext: from the last dot of the last path element on
Ext(path) ==
    IF path = << >> \/ path[Len(path)] = "/" THEN << >>
    ELSE IF \E i \in 1..Len(path) :
               path[i] = "." /\ \A j \in (i + 1)..Len(path) : path[j] \notin {".", "/"}
    THEN LET i == CHOOSE k \in 1..Len(path) :
                     path[k] = "." /\ \A j \in (k + 1)..Len(path) : path[j] \notin {".", "/"}
         IN SubSeq(path, i, Len(path))
    ELSE << >>
FilenameExtCar == << ".", "car" >>

\* ParseFilename(req): the name and the error, "" for none
ParseFilename(q) ==
    IF q.has
    THEN LET filename == q.value
             ext == Ext(filename)
         IN IF ext = << >>
            THEN [name |-> << >>, err |-> "missing extension"]
            ELSE IF ext # FilenameExtCar
            THEN [name |-> << >>, err |-> "unsupported extension"]
            ELSE [name |-> filename, err |-> ""]
    ELSE [name |-> << >>, err |-> ""]

\* the loop of ParseAccept: the valid ones, in the header's order
RECURSIVE ParseEach(_)
ParseEach(acceptTypes) ==
    IF acceptTypes = << >> THEN << >>
    ELSE LET accept == parseContentType(Head(acceptTypes), FALSE)
         IN (IF accept.valid THEN << accept.ct >> ELSE << >>)
            \o ParseEach(Tail(acceptTypes))

\* sort.SliceStable with less(i, j) = accepts[i].Quality > accepts[j].Quality:
\* below twenty elements it is one insertion sort
Swap(data, i, j) == [data EXCEPT ![i] = data[j], ![j] = data[i]]
RECURSIVE SiftDown(_, _)
SiftDown(data, j) ==
    IF j > 1 /\ Gt(data[j].Quality, data[j - 1].Quality)
    THEN SiftDown(Swap(data, j, j - 1), j - 1)
    ELSE data
RECURSIVE InsertionSort(_, _)
InsertionSort(data, i) ==
    IF i > Len(data) THEN data ELSE InsertionSort(SiftDown(data, i), i + 1)
SliceStable(data) == InsertionSort(data, 2)

ParseAccept(acceptHeader) == SliceStable(ParseEach(Split(acceptHeader, ",")))

Accepted(accepts) == [accepts |-> accepts, err |-> ""]
Refused(err) == [accepts |-> << >>, err |-> err]

\* CheckFormat without the switch on the format value
CheckFormatAnyFormat(format, accept) ==
      LET accepts == IF accept # << >> THEN ParseAccept(accept) ELSE << >>
          hasWildcardAccept ==
              accepts # << >> /\ accepts[1].MimeType \in WildcardMimes
          cars == { i \in 1..Len(accepts) : IsCar(accepts[i]) }
          a == accepts[CHOOSE i \in cars : \A j \in cars : i <= j]
      IN IF accept # << >> /\ accepts = << >>
         THEN IF format = FormatParameterCar
              THEN Accepted(<< WithMimeType(DefaultContentType, MimeTypeCar) >>)
              ELSE IF format = FormatParameterRaw
              THEN Accepted(<< WithMimeType(DefaultContentType, MimeTypeRaw) >>)
              ELSE Refused("invalid Accept header")
         ELSE IF accepts # << >> /\ ~hasWildcardAccept THEN Accepted(accepts)
         ELSE IF format = FormatParameterCar
              THEN IF cars # {} THEN Accepted(<< WithMimeType(a, MimeTypeCar) >>)
                   ELSE Accepted(<< WithMimeType(DefaultContentType, MimeTypeCar) >>)
         ELSE IF format = FormatParameterRaw
              THEN Accepted(<< WithMimeType(DefaultContentType, MimeTypeRaw) >>)
         ELSE IF accepts # << >> THEN Accepted(accepts)
         ELSE Refused("neither Accept nor format")
\* CheckFormat(req), of the request's format parameter and Accept header
CheckFormat(format, accept) ==
    IF format \notin { << >>, FormatParameterCar, FormatParameterRaw }
    THEN Refused("invalid format parameter")
    ELSE
      LET accepts == IF accept # << >> THEN ParseAccept(accept) ELSE << >>
          hasWildcardAccept ==
              accepts # << >> /\ accepts[1].MimeType \in WildcardMimes
          cars == { i \in 1..Len(accepts) : IsCar(accepts[i]) }
          a == accepts[CHOOSE i \in cars : \A j \in cars : i <= j]
      IN IF accept # << >> /\ accepts = << >>
         THEN IF format = FormatParameterCar
              THEN Accepted(<< WithMimeType(DefaultContentType, MimeTypeCar) >>)
              ELSE IF format = FormatParameterRaw
              THEN Accepted(<< WithMimeType(DefaultContentType, MimeTypeRaw) >>)
              ELSE Refused("invalid Accept header")
         ELSE IF accepts # << >> /\ ~hasWildcardAccept THEN Accepted(accepts)
         ELSE IF format = FormatParameterCar
              THEN IF cars # {} THEN Accepted(<< WithMimeType(a, MimeTypeCar) >>)
                   ELSE Accepted(<< WithMimeType(DefaultContentType, MimeTypeCar) >>)
         ELSE IF format = FormatParameterRaw
              THEN Accepted(<< WithMimeType(DefaultContentType, MimeTypeRaw) >>)
         ELSE IF accepts # << >> THEN Accepted(accepts)
         ELSE Refused("neither Accept nor format")

(***************************************************************************)
(* One call of a function of the two packages on an argument drawn by the  *)
(* initial state; String and the parser that reads it back are called one  *)
(* after the other.                                                        *)
(***************************************************************************)

\* no verification runs meanwhile
VerifierIdle ==
    /\ cfg = [Root |-> Root, AllowCARv2 |-> FALSE, CheckRootsMismatch |-> TRUE,
              ExpectDuplicatesIn |-> FALSE, WriteDuplicatesOut |-> FALSE,
              MaxBlocks |-> 0]
    /\ dag = Leaf
    /\ wellBehaved = TRUE
    /\ Start

ByteRangeInputs ==
    { [kind |-> "ByteRange", br |-> p] :
        p \in {Nil} \cup { Ptr(b) : b \in ByteRanges } }
RangeStringInputs == { [kind |-> "range string", s |-> s] : s \in RangeStrings }
EntityBytesInputs ==
    { [kind |-> "entity-bytes", q |-> q] :
        q \in {Query(FALSE, << >>)} \cup { Query(TRUE, s) : s \in RangeStrings } }

\* a header's parameters have at most MaxParams segments
MaxParams == 2
\* a comma-separated header has at most MaxEntries entries
MaxEntries == 3

\* a segment after the mime: key=value, or one without "="
KV(k, v) == [key |-> k, value |-> v, bare |-> FALSE]
Bare(k) == [key |-> k, value |-> << >>, bare |-> TRUE]
\* the q values offered, each with the number it writes, if any
QLiterals ==
    { [text |-> << "0", ".", "5" >>, isNum |-> TRUE, num |-> 5000],
      [text |-> << "0" >>, isNum |-> TRUE, num |-> 0],
      [text |-> << "1" >>, isNum |-> TRUE, num |-> One],
      [text |-> << "2" >>, isNum |-> TRUE, num |-> 2 * One],
      [text |-> << "-", "0", ".", "5" >>, isNum |-> TRUE, num |-> -5000],
      [text |-> << "NaN" >>, isNum |-> FALSE, num |-> 0],
      [text |-> << "bork" >>, isNum |-> FALSE, num |-> 0] }
Params ==
    { KV(<< "dups" >>, v) : v \in { << "y" >>, << "n" >>, << "YES" >> } }
    \cup { KV(<< "version" >>, v) : v \in { << "1" >>, << "2" >> } }
    \cup { KV(<< "order" >>, v) : v \in { << "dfs" >>, << "unk" >>, << "bork" >> } }
    \cup { KV(<< "q" >>, l.text) : l \in QLiterals }
    \cup { KV(<< "foo" >>, << "bar" >>), Bare(<< "bip" >>) }
Mimes == { MimeTypeCar, MimeTypeRaw, << "text/html" >> } \cup WildcardMimes
Entry(mime, params) == [mime |-> mime, params |-> params]

\* the text of an entry, with or without spaces around its parts
RECURSIVE RenderParams(_, _)
RenderParams(ps, sp) ==
    IF ps = << >> THEN << >>
    ELSE << ";" >> \o sp \o Head(ps).key
         \o (IF Head(ps).bare THEN << >> ELSE sp \o << "=" >> \o sp \o Head(ps).value)
         \o RenderParams(Tail(ps), sp)
RenderEntry(e, spaced) ==
    LET sp == IF spaced THEN << " " >> ELSE << >>
    IN sp \o e.mime \o sp \o RenderParams(e.params, sp)
RECURSIVE JoinComma(_)
JoinComma(texts) ==
    IF texts = << >> THEN << >>
    ELSE IF Len(texts) = 1 THEN texts[1]
    ELSE texts[1] \o << "," >> \o JoinComma(Tail(texts))

ContentTypeHeaderInputs ==
    { [kind |-> "content type", entry |-> Entry(m, ps), spaced |-> sp, strict |-> st] :
        m \in Mimes, ps \in UNION { [1..n -> Params] : n \in 0..MaxParams },
        sp \in BOOLEAN, st \in BOOLEAN }

\* the ContentType values printed: every order a caller may put, and
\* qualities inside and outside [0, 1], of three digits and of four
QualityValues == { 0, 12, 1230, 1234, 5000, 9996, One, 2 * One, -5000, NaN }
ContentTypeInputs ==
    { [kind |-> "ContentType", ct |-> ContentType(m, o, d, q)] :
        m \in { MimeTypeCar, MimeTypeRaw },
        o \in { ContentTypeOrderDfs, ContentTypeOrderUnk, << >> },
        d \in BOOLEAN, q \in QualityValues }

\* the entries of the comma-separated headers
ListEntries ==
    { Entry(m, << >>) : m \in { MimeTypeCar, MimeTypeRaw, << "*/*" >>, << "text/html" >> } }
    \cup { Entry(m, << KV(<< "q" >>, << "0", ".", "5" >>) >>) :
             m \in { MimeTypeCar, MimeTypeRaw, << "*/*" >> } }
    \cup { Entry(<< "application/*" >>, << KV(<< "q" >>, << "0" >>) >>),
           Entry(<< "*/*" >>, << KV(<< "q" >>, << "NaN" >>) >>),
           Entry(MimeTypeCar, << KV(<< "dups" >>, << "n" >>) >>),
           Entry(MimeTypeCar, << KV(<< "dups" >>, << "YES" >>) >>),
           Entry(MimeTypeCar, << KV(<< "foo" >>, << "bar" >>) >>) }
EntryLists == UNION { [1..n -> ListEntries] : n \in 0..MaxEntries }
HeaderOf(entries, spaced) ==
    JoinComma([i \in 1..Len(entries) |-> RenderEntry(entries[i], spaced)])
HeaderListInputs ==
    { [kind |-> "header list", entries |-> es, spaced |-> sp] :
        es \in EntryLists, sp \in BOOLEAN }
Formats == { << >>, FormatParameterCar, FormatParameterRaw, << "bop" >> }
RequestInputs ==
    { [kind |-> "request", entries |-> es, spaced |-> FALSE, format |-> f] :
        es \in EntryLists, f \in Formats }

\* the filename parameters offered, and the content types the caller accepts
Filenames ==
    { << >>, << "bork" >>, << "boop", ".", "car" >>, << "boop", ".", "bin" >>,
      << "bork", ".", "exe" >>, << "a", ".", "car", "/", "b" >>, << ".", "car" >>,
      << "boop", "." >>, << "a", ".", "bin", ".", "car" >> }
AcceptsOffered ==
    { << DefaultContentType >>, << WithMimeType(DefaultContentType, MimeTypeRaw) >>,
      << DefaultContentType, WithMimeType(DefaultContentType, MimeTypeRaw) >> }
FilenameInputs ==
    { [kind |-> "filename", q |-> q, accepts |-> a] :
        q \in {Query(FALSE, << >>)} \cup { Query(TRUE, f) : f \in Filenames },
        a \in AcceptsOffered }

Return(fn, out) ==
    /\ called' = fn
    /\ output' = out
    /\ UNCHANGED input
    /\ UNCHANGED << verifierVars, calls >>

CallByteRangeString ==
    /\ called = NotCalled
    /\ input.kind = "ByteRange"
    /\ Return("ByteRange.String", [s |-> ByteRangeString(input.br)])

CallParseByteRange ==
    \/ /\ called = NotCalled
       /\ input.kind = "range string"
       /\ Return("ParseByteRange", ParseByteRange(input.s))
    \/ /\ called = "ByteRange.String"
       /\ Return("ParseByteRange", ParseByteRange(output.s))

CallHttpParseByteRange ==
    /\ called = NotCalled
    /\ input.kind = "entity-bytes"
    /\ Return("http.ParseByteRange", HttpParseByteRange(input.q))

CallparseContentType ==
    /\ called = NotCalled
    /\ input.kind = "content type"
    /\ Return("parseContentType",
              parseContentType(RenderEntry(input.entry, input.spaced), input.strict))

CallContentTypeString ==
    /\ called = NotCalled
    /\ input.kind = "ContentType"
    /\ Return("ContentType.String", [s |-> ContentTypeString(input.ct)])

CallParseContentType ==
    \/ /\ called = "ContentType.String"
       /\ Return("ParseContentType", ParseContentType(output.s))
    \/ /\ called = NotCalled
       /\ input.kind = "header list"
       /\ Return("ParseContentType",
                 ParseContentType(HeaderOf(input.entries, input.spaced)))

CallParseAccept ==
    /\ called = NotCalled
    /\ input.kind = "header list"
    /\ Return("ParseAccept", [accepts |-> ParseAccept(HeaderOf(input.entries, input.spaced))])

CallParseFilename ==
    /\ called = NotCalled
    /\ input.kind = "filename"
    /\ Return("ParseFilename", ParseFilename(input.q))

CallCheckFormat ==
    /\ called = NotCalled
    /\ input.kind = "request"
    /\ Return("CheckFormat",
              CheckFormat(input.format, HeaderOf(input.entries, input.spaced)))

(***************************************************************************)
(* C17.  For every ByteRange that is not default, integers of either sign  *)
(* and the extremes of int64 included, ParseByteRange of its String        *)
(* succeeds and returns an equal range; a default range (nil, or From 0    *)
(* with no To) prints as 0:* and parses back to a default range.           *)
(***************************************************************************)
C17_ByteRangeRoundTrip ==
    /\ (called = "ByteRange.String" /\ IsDefault(input.br))
          => output.s = << "0", ":", "*" >>
    /\ (called = "ParseByteRange" /\ input.kind = "ByteRange") =>
          /\ ~output.err
          /\ IF IsDefault(input.br) THEN IsDefault(Ptr(output.br))
             ELSE Ptr(output.br) = input.br

\* the round trip of the most negative From with a negative To
C17_Witness ==
    /\ called = "ParseByteRange" /\ input.kind = "ByteRange"
    /\ input.br # Nil /\ input.br[1].From = -(MaxInt + 1)
    /\ input.br[1].To # Nil /\ input.br[1].To[1] < 0
    /\ Ptr(output.br) = input.br

(***************************************************************************)
(* C18.  The http ParseByteRange returns no range and no error exactly     *)
(* when the query has no entity-bytes parameter; when the parameter is     *)
(* there it returns a range only if the value is an integer, a colon and  *)
(* then an integer or a star, and an error for every other value, the      *)
(* empty value included.                                                   *)
(***************************************************************************)
IsIntLiteral(s) ==
    LET d == IF s # << >> /\ Head(s) \in {"+", "-"} THEN Tail(s) ELSE s
    IN d # << >> /\ \A i \in 1..Len(d) : IsDigit(d[i])
MatchesRangeGrammar(s) ==
    \E i \in 1..Len(s) :
        /\ s[i] = ":"
        /\ IsIntLiteral(SubSeq(s, 1, i - 1))
        /\ \/ SubSeq(s, i + 1, Len(s)) = << "*" >>
           \/ IsIntLiteral(SubSeq(s, i + 1, Len(s)))
C18_EntityBytes ==
    called = "http.ParseByteRange" =>
        /\ (output.br = Nil /\ ~output.err) <=> ~input.q.has
        /\ input.q.has =>
              /\ output.br # Nil => MatchesRangeGrammar(input.q.value)
              /\ ~MatchesRangeGrammar(input.q.value) => output.err

(***************************************************************************)
(* C12.  ParseAccept returns exactly the entries of the header that the    *)
(* non-strict parser accepts, possibly none, in an order of non-increasing *)
(* quality, and entries of equal quality stay in the header's order.       *)
(***************************************************************************)
\* what the non-strict parser makes of each entry on its own, valid ones only
ValidOnes(entries, spaced) ==
    LET parsed == [i \in 1..Len(entries) |->
                     parseContentType(RenderEntry(entries[i], spaced), FALSE)]
        IsValid(r) == r.valid
        valid == SelectSeq(parsed, IsValid)
    IN [i \in 1..Len(valid) |-> valid[i].ct]
OfQuality(cts, q) ==
    LET Has(ct) == ct.Quality = q
    IN SelectSeq(cts, Has)
IsAcceptList(out, V) ==
    /\ Len(out) = Len(V)
    /\ \A i, j \in 1..Len(out) : i < j => ~Lt(out[i].Quality, out[j].Quality)
    /\ \A k \in 1..Len(V) : OfQuality(out, V[k].Quality) = OfQuality(V, V[k].Quality)
C12_AcceptOrder ==
    called = "ParseAccept" =>
        IsAcceptList(output.accepts, ValidOnes(input.entries, input.spaced))

(***************************************************************************)
(* C11.  CheckFormat with a valid format parameter.  When the valid Accept *)
(* entry of highest quality (the first of them in the header) is car or    *)
(* raw, the result is the whole quality-ordered Accept list, whatever the  *)
(* format parameter is.  When it is a wildcard, or the header has no valid *)
(* entry, and format is car or raw, the result is one content type with    *)
(* the mime the format names.  When it is a wildcard and there is no       *)
(* format parameter, the result is the Accept list.                        *)
(***************************************************************************)
TopOf(V) ==
    IF \A i \in 1..Len(V) : V[i].Quality = NaN THEN 1
    ELSE CHOOSE i \in 1..Len(V) :
            /\ V[i].Quality # NaN
            /\ \A j \in 1..Len(V) : ~Gt(V[j].Quality, V[i].Quality)
            /\ \A j \in 1..(i - 1) : ~Ge(V[j].Quality, V[i].Quality)
MimeOfFormat(format) ==
    IF format = FormatParameterCar THEN MimeTypeCar ELSE MimeTypeRaw
C11_AcceptBeforeFormat ==
    (called = "CheckFormat"
        /\ input.format \in { << >>, FormatParameterCar, FormatParameterRaw }) =>
        LET V == ValidOnes(input.entries, input.spaced)
            concrete == V # << >> /\ V[TopOf(V)].MimeType \in { MimeTypeCar, MimeTypeRaw }
            wildcard == V # << >> /\ V[TopOf(V)].MimeType \in WildcardMimes
        IN /\ concrete =>
                output.err = "" /\ IsAcceptList(output.accepts, V)
           /\ ((wildcard \/ V = << >>) /\ input.format # << >>) =>
                /\ output.err = ""
                /\ Len(output.accepts) = 1
                /\ output.accepts[1].MimeType = MimeOfFormat(input.format)
           /\ (wildcard /\ input.format = << >>) =>
                output.err = "" /\ IsAcceptList(output.accepts, V)

(***************************************************************************)
(* C13.  With a filename parameter, ParseFilename succeeds in exactly two  *)
(* cases: the extension is .car and some accepted content type is car, or  *)
(* it is .bin and some accepted content type is raw.  A missing extension, *)
(* an unsupported one, .car without a car accept and .bin without a raw    *)
(* accept are four different errors.  Without the parameter the name is    *)
(* empty and there is no error.                                            *)
(***************************************************************************)
SomeAccept(accepts, mime) == \E i \in 1..Len(accepts) : accepts[i].MimeType = mime
FilenameVerdict(filename, accepts) ==
    LET ext == Ext(filename)
    IN IF ext = << >> THEN "missing extension"
       ELSE IF ext = << ".", "car" >>
       THEN IF SomeAccept(accepts, MimeTypeCar) THEN "" ELSE ".car without car accept"
       ELSE IF ext = << ".", "bin" >>
       THEN IF SomeAccept(accepts, MimeTypeRaw) THEN "" ELSE ".bin without raw accept"
       ELSE "unsupported extension"
C13_FilenameByAccept ==
    called = "ParseFilename" =>
        IF input.q.has
        THEN /\ output.err = FilenameVerdict(input.q.value, input.accepts)
             /\ output.err = "" => output.name = input.q.value
        ELSE output.err = "" /\ output.name = << >>

(***************************************************************************)
(* C14.  The strict ParseContentType reports invalid for every header      *)
(* whose mime is a wildcard and for every header that is a comma-separated *)
(* list of more than one content type, whatever parameters they carry.     *)
(***************************************************************************)
C14_StrictRefusesListsAndWildcards ==
    /\ (called = "parseContentType" /\ input.strict
          /\ input.entry.mime \in WildcardMimes) => ~output.valid
    /\ (called = "ParseContentType" /\ input.kind = "header list") =>
          /\ Len(input.entries) > 1 => ~output.valid
          /\ (Len(input.entries) = 1 /\ input.entries[1].mime \in WildcardMimes)
                => ~output.valid

(***************************************************************************)
(* C15.  parseContentType reads dups, version and order only under the car *)
(* mime: there a value outside y/n, 1, dfs/unk makes the header invalid,   *)
(* and segments with another key are ignored; under the raw and wildcard   *)
(* mimes the three change neither the result nor its validity.  q is read  *)
(* under every accepted mime, and a q that is not a number in [0,1] makes  *)
(* the header invalid.  Parameters that are absent leave order dfs,        *)
(* duplicates true and quality 1.  (Of a key given twice the last counts.) *)
(***************************************************************************)
Keyed(ps, k) == { i \in 1..Len(ps) : ~ps[i].bare /\ ps[i].key = k }
LastOf(ps, k) == ps[CHOOSE i \in Keyed(ps, k) : \A j \in Keyed(ps, k) : j <= i].value
QLit(v) == CHOOSE l \in QLiterals : l.text = v
QInUnit(v) == QLit(v).isNum /\ QLit(v).num >= 0 /\ QLit(v).num <= One
MimeAccepted(m, strict) ==
    m \in { MimeTypeCar, MimeTypeRaw } \/ (~strict /\ m \in WildcardMimes)
BadCarValue(ps) ==
    \/ \E i \in Keyed(ps, << "dups" >>) : ps[i].value \notin { << "y" >>, << "n" >> }
    \/ \E i \in Keyed(ps, << "version" >>) : ps[i].value # << "1" >>
    \/ \E i \in Keyed(ps, << "order" >>) : ps[i].value \notin { << "dfs" >>, << "unk" >> }
BadQ(ps) == \E i \in Keyed(ps, << "q" >>) : ~QInUnit(ps[i].value)
ExpectedValid(e, strict) ==
    /\ MimeAccepted(e.mime, strict)
    /\ e.mime = MimeTypeCar => ~BadCarValue(e.params)
    /\ ~BadQ(e.params)
ExpectedContentType(e) ==
    LET ps == e.params
        car == e.mime = MimeTypeCar
    IN ContentType(e.mime,
         IF car /\ Keyed(ps, << "order" >>) # {} THEN LastOf(ps, << "order" >>)
         ELSE << "dfs" >>,
         IF car /\ Keyed(ps, << "dups" >>) # {} THEN LastOf(ps, << "dups" >>) = << "y" >>
         ELSE TRUE,
         IF Keyed(ps, << "q" >>) # {} THEN QLit(LastOf(ps, << "q" >>)).num ELSE One)
C15_ParametersByMime ==
    called = "parseContentType" =>
        /\ output.valid <=> ExpectedValid(input.entry, input.strict)
        /\ output.valid => output.ct = ExpectedContentType(input.entry)

(***************************************************************************)
(* C16.  For every ContentType whose mime is car or raw, the strict        *)
(* parser accepts what String prints and returns a value equal to it in    *)
(* mime, order, duplicates and quality.                                    *)
(***************************************************************************)
C16_StringRoundTrip ==
    (called = "ParseContentType" /\ input.kind = "ContentType") =>
        output.valid /\ output.ct = input.ct

\* the values String can write down: order dfs or unk, a quality in [0,1]
\* of at most three significant digits, and under the raw mime the order
\* and duplicates of DefaultContentType
Printable(ct) ==
    /\ ct.Order \in { ContentTypeOrderDfs, ContentTypeOrderUnk }
    /\ Ge(ct.Quality, 0) /\ ~Gt(ct.Quality, One)
    /\ ct.Quality < 1000 \/ ct.Quality % 10 = 0
    /\ ct.MimeType = MimeTypeRaw =>
          ct.Order = ContentTypeOrderDfs /\ ct.Duplicates

\* C16 as amended: the round trip returns every printable value
C16_PrintableRoundTrip ==
    (called = "ParseContentType" /\ input.kind = "ContentType"
        /\ Printable(input.ct)) =>
        output.valid /\ output.ct = input.ct

C16_Witness ==
    /\ called = "ParseContentType" /\ input.kind = "ContentType"
    /\ input.ct = ContentType(MimeTypeCar, ContentTypeOrderUnk, FALSE, 1230)
    /\ output.valid /\ output.ct = input.ct

(***************************************************************************)
(* Request.Etag.  The strings hashed are sequences of symbols as above: the *)
(* root CID prints as one word, "NUL" is the zero byte, a path is words     *)
(* separated by "/".  xxhash's 64-bit arithmetic is out of reach of TLC's   *)
(* 32-bit integers, so Sum64 keeps the bytes written as the digest: a       *)
(* hash without collisions.  Equal bytes give equal digests as in the       *)
(* code; different bytes give digests that differ, which the code's hash    *)
(* does for all but a 2^-64 share of pairs.                                 *)
(***************************************************************************)
DagScopeAll == << "all" >>
DagScopeEntity == << "entity" >>
DagScopeBlock == << "block" >>

Request(root, path, scope, bytes, dups) ==
    [Root |-> root, Path |-> path, Scope |-> scope, Bytes |-> bytes,
     Duplicates |-> dups]

\* datamodel.ParsePath(pth): the segments between separators, empty ones
\* dropped; and Path.String(): the segments joined by "/"
ParsePath(pth) == SelectSeq(Split(pth, "/"), LAMBDA seg : seg # << >>)
RECURSIVE PathString(_)
PathString(segments) ==
    IF segments = << >> THEN << >>
    ELSE IF Len(segments) = 1 THEN Head(segments)
    ELSE Head(segments) \o << "/" >> \o PathString(Tail(segments))

Sum64(written) == [sum64 |-> written]
\* strconv.FormatUint(h, 32)
FormatUint32(h) == [base32 |-> h]

EtagHashesRawPath(r, order) ==
    LET path == IF r.Path # << >> THEN << "/" >> \o r.Path ELSE << >>
        scope == IF r.Scope # DagScopeAll
                 THEN << "NUL", "scope=" >> \o r.Scope ELSE << >>
        range == IF ~IsDefault(r.Bytes)
                 THEN << "NUL", "range=" >> \o FormatInt(r.Bytes[1].From)
                      \o (IF r.Bytes[1].To # Nil
                          THEN << "," >> \o FormatInt(r.Bytes[1].To[1])
                          ELSE << >>)
                 ELSE << >>
        ord == IF order # << >> /\ order # << "dfs" >>
               THEN << "NUL", "order=" >> \o order ELSE << >>
        dups == IF r.Duplicates THEN << "NUL", "dups=y" >> ELSE << >>
        h == << "/ipfs/" >> \o r.Root \o path \o scope \o range \o ord \o dups
        suffix == FormatUint32(Sum64(h))
    IN << "W/", "\"" >> \o r.Root \o << ".car.", suffix, "\"" >>
Etag(r, order) ==
    LET path == IF r.Path # << >>
                THEN << "/" >> \o PathString(ParsePath(r.Path)) ELSE << >>
        scope == IF r.Scope # DagScopeAll
                 THEN << "NUL", "scope=" >> \o r.Scope ELSE << >>
        range == IF ~IsDefault(r.Bytes)
                 THEN << "NUL", "range=" >> \o FormatInt(r.Bytes[1].From)
                      \o (IF r.Bytes[1].To # Nil
                          THEN << "," >> \o FormatInt(r.Bytes[1].To[1])
                          ELSE << >>)
                 ELSE << >>
        ord == IF order # << >> /\ order # << "dfs" >>
               THEN << "NUL", "order=" >> \o order ELSE << >>
        dups == IF r.Duplicates THEN << "NUL", "dups=y" >> ELSE << >>
        h == << "/ipfs/" >> \o r.Root \o path \o scope \o range \o ord \o dups
        suffix == FormatUint32(Sum64(h))
    IN << "W/", "\"" >> \o r.Root \o << ".car.", suffix, "\"" >>

\* the requests Etag is called on
Roots ==
    { << "QmVXsSVjwxMsCwKRCUxEkGb4f4B98gXVy3ih3v4otvcURK" >>,
      << "bafybeigdyrzt5sfp7udm7hu76uh7y26nf3efuylqabf3oclgtqy55fbzdi" >> }
Paths ==
    { << >>, << "/" >>, << "a" >>, << "a", "/", "b" >>, << "/", "a", "/", "b" >>,
      << "/", "/", "/", "a", "/", "/", "b", "/" >> }
Scopes == { << >>, DagScopeAll, DagScopeEntity, DagScopeBlock }
EtagRanges ==
    { Nil, Ptr(ByteRange(0, Nil)), Ptr(ByteRange(1, Nil)),
      Ptr(ByteRange(0, Ptr(2))), Ptr(ByteRange(1, Ptr(2))) }
Orders == { << >>, ContentTypeOrderDfs, ContentTypeOrderUnk }
EtagCalls ==
    { [r |-> Request(root, p, s, b, d), order |-> o] :
        root \in Roots, p \in Paths, s \in Scopes, b \in EtagRanges,
        d \in BOOLEAN, o \in Orders }

\* the logical request: the segments of the path however it is written,
\* and each parameter with its default filled in
RECURSIVE Segments(_, _)
Segments(pth, seg) ==
    IF pth = << >> THEN (IF seg = << >> THEN << >> ELSE << seg >>)
    ELSE IF Head(pth) = "/"
         THEN (IF seg = << >> THEN << >> ELSE << seg >>) \o Segments(Tail(pth), << >>)
         ELSE Segments(Tail(pth), seg \o << Head(pth) >>)
ScopeOrDefault(scope) == IF scope = << >> THEN DagScopeAll ELSE scope
RangeOrDefault(bytes) == IF bytes = Nil THEN Ptr(ByteRange(0, Nil)) ELSE bytes
OrderOrDefault(order) == IF order = << >> THEN ContentTypeOrderDfs ELSE order
SameLogicalRequest(a, b) ==
    /\ a.r.Root = b.r.Root
    /\ Segments(a.r.Path, << >>) = Segments(b.r.Path, << >>)
    /\ ScopeOrDefault(a.r.Scope) = ScopeOrDefault(b.r.Scope)
    /\ RangeOrDefault(a.r.Bytes) = RangeOrDefault(b.r.Bytes)
    /\ OrderOrDefault(a.order) = OrderOrDefault(b.order)
    /\ a.r.Duplicates = b.r.Duplicates

\* a call, and a second call that differs from it in how the request is
\* written or in the duplicates flag
Rewritings(a) ==
    { [r |-> Request(a.r.Root, p, s, b, d), order |-> o] :
        p \in { x \in Paths : Segments(x, << >>) = Segments(a.r.Path, << >>) },
        s \in { x \in Scopes : ScopeOrDefault(x) = ScopeOrDefault(a.r.Scope) },
        b \in { x \in EtagRanges : RangeOrDefault(x) = RangeOrDefault(a.r.Bytes) },
        d \in BOOLEAN,
        o \in { x \in Orders : OrderOrDefault(x) = OrderOrDefault(a.order) } }
EtagInputs ==
    UNION { { [kind |-> "Request", first |-> a, second |-> b] : b \in Rewritings(a) } :
            a \in EtagCalls }

CallEtag ==
    \/ /\ called = NotCalled
       /\ input.kind = "Request"
       /\ Return("Etag", [first |-> Etag(input.first.r, input.first.order)])
    \/ /\ called = "Etag"
       /\ Return("Etag twice",
                 [first |-> output.first,
                  second |-> Etag(input.second.r, input.second.order)])

(***************************************************************************)
(* C19.  Two calls of Etag return the same string whenever they agree on   *)
(* the root, the segments of the path, the scope with unset read as all,   *)
(* the byte range with absent read as 0:*, the order with "" read as dfs,  *)
(* and the duplicates flag.                                                *)
(***************************************************************************)
C19_EtagOfLogicalRequest ==
    (called = "Etag twice" /\ SameLogicalRequest(input.first, input.second)) =>
        output.first = output.second

(***************************************************************************)
(* C20.  Every Etag is W/ and, in double quotes, the root, ".car." and the *)
(* base-32 rendering of the hash of: "/ipfs/" and the root; "/" and the    *)
(* canonical path if the path is non-empty; NUL "scope=" and the scope if  *)
(* the scope is not all; NUL "range=" and from, with "," and to when to is *)
(* set, if the range is not the default; NUL "order=" and the order if it  *)
(* is neither "" nor dfs; NUL "dups=y" if duplicates is true.              *)
(***************************************************************************)
Concatenation(c) ==
    << "/ipfs/" >> \o c.r.Root
    \o (IF c.r.Path = << >> THEN << >>
        ELSE << "/" >> \o PathString(Segments(c.r.Path, << >>)))
    \o (IF c.r.Scope = DagScopeAll THEN << >>
        ELSE << "NUL", "scope=" >> \o c.r.Scope)
    \o (IF c.r.Bytes = Nil \/ c.r.Bytes = Ptr(ByteRange(0, Nil)) THEN << >>
        ELSE << "NUL", "range=" >> \o FormatInt(c.r.Bytes[1].From)
             \o (IF c.r.Bytes[1].To = Nil THEN << >>
                 ELSE << "," >> \o FormatInt(c.r.Bytes[1].To[1])))
    \o (IF c.order \in { << >>, ContentTypeOrderDfs } THEN << >>
        ELSE << "NUL", "order=" >> \o c.order)
    \o (IF c.r.Duplicates THEN << "NUL", "dups=y" >> ELSE << >>)
EtagOf(c) ==
    << "W/", "\"" >> \o c.r.Root
       \o << ".car.", FormatUint32(Sum64(Concatenation(c))), "\"" >>
Inc64(n) == IF n = MaxInt THEN -(MaxInt + 1) ELSE n + 1

ExploreAllRecursivelySelector == [kind |-> "ExploreAllRecursively"]
MatchUnixFSEntitySelector == [kind |-> "MatchUnixFSEntity"]
matcherSelector == [kind |-> "Matcher"]

TerminalSelectorSpec(ds) ==
    IF ds = DagScopeAll THEN ExploreAllRecursivelySelector
    ELSE IF ds = DagScopeEntity THEN MatchUnixFSEntitySelector
    ELSE IF ds = DagScopeBlock THEN matcherSelector
    ELSE ExploreAllRecursivelySelector

\* ExploreInterpretAs("unixfs", ExploreUnion(MatcherSubset(from, to),
\* ExploreRecursive(depth 1, ExploreAll(edge))))
SubsetUnion(from, to) ==
    [kind |-> "InterpretAs unixfs: Union",
     subset |-> [from |-> from, to |-> to],
     fallback |-> "ExploreRecursive(1, ExploreAll)"]

\* unixfsnode.UnixFSPathSelectorBuilder(path, terminal, false): one
\* ExploreInterpretAs("unixfs", ExploreFields(segment -> ...)) per segment of
\* the parsed path, built from the last segment to the first
RECURSIVE WrapFields(_, _)
WrapFields(segments, ss) ==
    IF segments = << >> THEN ss
    ELSE WrapFields(SubSeq(segments, 1, Len(segments) - 1),
                    [kind |-> "InterpretAs unixfs: Fields",
                     field |-> segments[Len(segments)], next |-> ss])
UnixFSPathSelectorBuilder(path, targetSelector) ==
    WrapFields(ParsePath(path), targetSelector)

SelectorAnyScope(r) ==
    LET terminal ==
          IF ~IsDefault(r.Bytes)
          THEN LET to == IF r.Bytes[1].To # Nil
                         THEN (IF r.Bytes[1].To[1] >= 0
                               THEN Inc64(r.Bytes[1].To[1]) ELSE r.Bytes[1].To[1])
                         ELSE MaxInt
               IN SubsetUnion(r.Bytes[1].From, to)
          ELSE TerminalSelectorSpec(r.Scope)
    IN UnixFSPathSelectorBuilder(r.Path, terminal)
Selector(r) ==
    LET terminal ==
          IF r.Scope = DagScopeEntity /\ ~IsDefault(r.Bytes)
          THEN LET to == IF r.Bytes[1].To # Nil
                         THEN (IF r.Bytes[1].To[1] >= 0
                               THEN Inc64(r.Bytes[1].To[1]) ELSE r.Bytes[1].To[1])
                         ELSE MaxInt
               IN SubsetUnion(r.Bytes[1].From, to)
          ELSE TerminalSelectorSpec(r.Scope)
    IN UnixFSPathSelectorBuilder(r.Path, terminal)

\* IpfsRoots()
IpfsRoots(r) == IF r.Path # << >> THEN << >> ELSE r.Root

\* the requests a selector is made of: every scope, an unknown one, and
\* every To of the narrowed int64; the second request has the same path,
\* scope and byte range, and any root and duplicates flag
SelectorScopes == Scopes \cup { << "bork" >> }
SelectorRanges ==
    { Nil } \cup { Ptr(ByteRange(f, t)) :
                     f \in { -1, 0, 1 }, t \in { Nil } \cup { Ptr(n) : n \in Int64 } }
SelectorInputs ==
    { [kind |-> "Selector",
       first |-> Request(CHOOSE root \in Roots : TRUE, p, s, b, FALSE),
       second |-> Request(root2, p, s, b, d)] :
        p \in Paths, s \in SelectorScopes, b \in SelectorRanges,
        root2 \in Roots, d \in BOOLEAN }

CallSelector ==
    \/ /\ called = NotCalled
       /\ input.kind = "Selector"
       /\ Return("Selector", [first |-> Selector(input.first)])
    \/ /\ called = "Selector"
       /\ Return("Selector twice",
                 [first |-> output.first, second |-> Selector(input.second)])

CallIpfsRoots ==
    /\ called = NotCalled
    /\ input.kind = "Selector"
    /\ Return("IpfsRoots", [roots |-> IpfsRoots(input.second)])

\* what a selector is made of: the fields explored, outermost first, and
\* the terminal under them
RECURSIVE FieldsOf(_)
FieldsOf(sel) ==
    IF sel.kind = "InterpretAs unixfs: Fields"
    THEN << sel.field >> \o FieldsOf(sel.next) ELSE << >>
RECURSIVE TerminalOf(_)
TerminalOf(sel) ==
    IF sel.kind = "InterpretAs unixfs: Fields" THEN TerminalOf(sel.next) ELSE sel
IsSubsetUnion(sel) == sel.kind = "InterpretAs unixfs: Union"

(***************************************************************************)
(* C21.  When Selector builds the byte-range terminal (scope entity, a     *)
(* range that is not the default), the subset matcher starts at From and   *)
(* ends, exclusively, at MaxInt64 when To is absent, at To + 1, greater    *)
(* than To, for every To >= 0, and at To for every To < 0.                 *)
(***************************************************************************)
C21_SubsetEnd ==
    (called = "Selector" /\ input.first.Scope = DagScopeEntity
        /\ ~IsDefault(input.first.Bytes)) =>
        LET br == input.first.Bytes[1]
            subset == TerminalOf(output.first).subset
        IN /\ IsSubsetUnion(TerminalOf(output.first))
           /\ subset.from = br.From
           /\ br.To = Nil => subset.to = MaxInt
           /\ (br.To # Nil /\ br.To[1] >= 0) =>
                  subset.to = br.To[1] + 1 /\ subset.to > br.To[1]
           /\ (br.To # Nil /\ br.To[1] < 0) => subset.to = br.To[1]

(***************************************************************************)
(* C22.  Selector depends on Path, Scope and Bytes only; its terminal is   *)
(* the subset union exactly when the scope is entity and the range is not  *)
(* the default, and otherwise explore-all-recursively for all, unset and   *)
(* unknown scopes, match-UnixFS-entity for entity and a plain matcher for  *)
(* block; the terminal is wrapped in one explore-fields step per segment   *)
(* of the path, the first segment outermost.                               *)
(***************************************************************************)
C22_SelectorShape ==
    /\ called = "Selector twice" => output.first = output.second
    /\ called \in { "Selector", "Selector twice" } =>
         LET r == input.first
             terminal == TerminalOf(output.first)
             ranged == r.Bytes # Nil /\ r.Bytes # Ptr(ByteRange(0, Nil))
         IN /\ IsSubsetUnion(terminal) <=> (r.Scope = DagScopeEntity /\ ranged)
            /\ ~IsSubsetUnion(terminal) =>
                 terminal.kind = (IF r.Scope = DagScopeEntity THEN "MatchUnixFSEntity"
                                  ELSE IF r.Scope = DagScopeBlock THEN "Matcher"
                                  ELSE "ExploreAllRecursively")
            /\ FieldsOf(output.first) = Segments(r.Path, << >>)
            /\ r.Path = << >> => output.first = terminal

C22_Witness ==
    /\ called = "Selector twice"
    /\ input.first.Path = << "/", "a", "/", "b" >>
    /\ input.first.Scope = DagScopeBlock
    /\ input.first.Bytes = Ptr(ByteRange(1, Ptr(2)))
    /\ input.second.Root # input.first.Root /\ input.second.Duplicates
    /\ output.first = output.second
    /\ FieldsOf(output.first) = << << "a" >>, << "b" >> >>
    /\ TerminalOf(output.first) = matcherSelector

(***************************************************************************)
(* C24.  IpfsRoots returns the root's string whenever the path has no      *)
(* segments, for every scope, byte range and duplicates flag, and the      *)
(* empty string whenever the path has a segment.                           *)
(***************************************************************************)
C24_IpfsRoots ==
    called = "IpfsRoots" =>
        output.roots = (IF Segments(input.second.Path, << >>) = << >>
                        THEN input.second.Root ELSE << >>)

(***************************************************************************)
(* Paths.  A datamodel.PathSegment holds a string, or an int with the      *)
(* string empty (i < 0 marks the string form); ParsePath makes string      *)
(* segments, a traversal names list indices by int segments.               *)
(***************************************************************************)
\* expected and last paths have at most MaxSegments segments
MaxSegments == 2
\* url paths have at most MaxUrlLen symbols
MaxUrlLen == 5

PathSegmentOfString(s) == [s |-> s, i |-> -1]
PathSegmentOfInt(i) == [s |-> << >>, i |-> i]
SegmentString(ps) == IF ps.i < 0 THEN ps.s ELSE FormatInt(ps.i)

CheckPathFailed == [err |-> TRUE]
CheckPathOk == [err |-> FALSE]
\* CheckPath(expectPath, lastPath)
RECURSIVE CheckPath(_, _)
CheckPath(expectPath, lastPath) ==
    IF Len(expectPath) > 0
    THEN IF Len(lastPath) = 0 THEN CheckPathFailed
         ELSE LET seg == Head(expectPath)
                  lastSeg == Head(lastPath)
              IN IF seg # lastSeg THEN CheckPathFailed
                 ELSE CheckPath(Tail(expectPath), Tail(lastPath))
    ELSE CheckPathOk

\* cid.Parse of a segment: the words that are CIDs parse, to the CID that
\* prints as that word
CidParses(seg) == seg \in Roots
CidUndef == << >>
ErrPathNotFound == "not found"
ErrBadCid == "failed to parse root CID"
UrlPathResult(root, path, err) == [root |-> root, path |-> path, err |-> err]

\* ParseUrlPath(urlPath); Shift of an empty path gives the zero segment,
\* which prints as "0"
ParseUrlPathNoLengthCheck(urlPath) ==
    LET path == ParsePath(urlPath)
        seg == IF path = << >> THEN << "0" >> ELSE Head(path)
        rest == IF path = << >> THEN << >> ELSE Tail(path)
    IN IF seg # << "ipfs" >> THEN UrlPathResult(CidUndef, << >>, ErrPathNotFound)
       ELSE LET cidSeg == IF rest = << >> THEN << "0" >> ELSE Head(rest)
                remaining == IF rest = << >> THEN << >> ELSE Tail(rest)
            IN IF ~CidParses(cidSeg) THEN UrlPathResult(CidUndef, << >>, ErrBadCid)
               ELSE UrlPathResult(cidSeg, remaining, "")
ParseUrlPath(urlPath) ==
    LET path == ParsePath(urlPath)
        seg == IF path = << >> THEN << "0" >> ELSE Head(path)
        rest == IF path = << >> THEN << >> ELSE Tail(path)
    IN IF seg # << "ipfs" >> THEN UrlPathResult(CidUndef, << >>, ErrPathNotFound)
       ELSE IF Len(rest) = 0 THEN UrlPathResult(CidUndef, << >>, ErrPathNotFound)
       ELSE LET cidSeg == Head(rest)
                remaining == Tail(rest)
            IN IF ~CidParses(cidSeg) THEN UrlPathResult(CidUndef, << >>, ErrBadCid)
               ELSE UrlPathResult(cidSeg, remaining, "")

\* the paths checked: string segments, and a list index both as the int a
\* traversal reports and as the string ParsePath reads
PathSegments ==
    { PathSegmentOfString(<< "a" >>), PathSegmentOfString(<< "b" >>),
      PathSegmentOfString(<< "0" >>), PathSegmentOfInt(0) }
SegmentPaths == UNION { [1..n -> PathSegments] : n \in 0..MaxSegments }
CheckPathInputs ==
    { [kind |-> "paths", expected |-> e, last |-> l] :
        e \in SegmentPaths, l \in SegmentPaths }
UrlSymbols ==
    { "/", "ipfs", "foo", "bafybeigdyrzt5sfp7udm7hu76uh7y26nf3efuylqabf3oclgtqy55fbzdi" }
UrlPathInputs ==
    { [kind |-> "url path", urlPath |-> u] :
        u \in UNION { [1..n -> UrlSymbols] : n \in 0..MaxUrlLen } }

CallCheckPath ==
    /\ called = NotCalled
    /\ input.kind = "paths"
    /\ Return("CheckPath", CheckPath(input.expected, input.last))

CallParseUrlPath ==
    /\ called = NotCalled
    /\ input.kind = "url path"
    /\ Return("ParseUrlPath", ParseUrlPath(input.urlPath))

(***************************************************************************)
(* C23.  CheckPath(expected, last) returns an error exactly when expected  *)
(* is not a prefix of last, segment by segment: last is shorter, or        *)
(* differs from expected at a position within expected's length.           *)
(***************************************************************************)
SegmentStrings(p) == [k \in 1..Len(p) |-> SegmentString(p[k])]
C23_CheckPathPrefix ==
    called = "CheckPath" =>
        (output.err <=>
            ~IsPrefix(SegmentStrings(input.expected), SegmentStrings(input.last)))

(***************************************************************************)
(* C25.  ParseUrlPath returns PathNotFound when the first segment is not   *)
(* ipfs or no segment follows it, BadCid when the second segment is not a  *)
(* CID, and otherwise the root with the remaining segments as a normalized *)
(* path; on every error the root is undefined and the path empty.          *)
(***************************************************************************)
C25_ParseUrlPath ==
    called = "ParseUrlPath" =>
        LET segs == Segments(input.urlPath, << >>)
        IN /\ (Len(segs) < 2 \/ segs[1] # << "ipfs" >>) =>
                 output.err = ErrPathNotFound
           /\ (Len(segs) >= 2 /\ segs[1] = << "ipfs" >> /\ segs[2] \notin Roots) =>
                 output.err = ErrBadCid
           /\ (Len(segs) >= 2 /\ segs[1] = << "ipfs" >> /\ segs[2] \in Roots) =>
                 /\ output.err = ""
                 /\ output.root = segs[2]
                 /\ output.path = SubSeq(segs, 3, Len(segs))
           /\ output.err # "" => output.root = CidUndef /\ output.path = << >>

C25_Witness ==
    /\ called = "ParseUrlPath"
    /\ Len(input.urlPath) = MaxUrlLen
    /\ input.urlPath[1] = "/" /\ input.urlPath[2] = "ipfs" /\ input.urlPath[3] = "/"
    /\ input.urlPath[5] = "/"
    /\ output.err = "" /\ output.root = << input.urlPath[4] >>
    /\ output.path = << >>

\* req.URL.Query().Get(key): the value, or "" when the parameter is absent
QueryGet(q) == IF q.has THEN q.value ELSE << >>

\* requests with the format parameter absent, empty, car, raw and unknown,
\* and an Accept header of entries that parse and entries that do not
FormatQueries ==
    { Query(FALSE, << >>), Query(TRUE, << >>), Query(TRUE, FormatParameterCar),
      Query(TRUE, FormatParameterRaw), Query(TRUE, << "bop" >>) }
FormatEntries ==
    { Entry(MimeTypeCar, << >>), Entry(<< "*/*" >>, << >>),
      Entry(<< "text/html" >>, << >>),
      Entry(MimeTypeCar, << KV(<< "dups" >>, << "YES" >>) >>),
      Entry(MimeTypeRaw, << KV(<< "q" >>, << "0", ".", "5" >>) >>),
      Entry(MimeTypeCar, << KV(<< "q" >>, << "NaN" >>) >>) }
FormatRequestInputs ==
    { [kind |-> "format request", q |-> q, entries |-> es] :
        q \in FormatQueries,
        es \in UNION { [1..n -> FormatEntries] : n \in 0..MaxEntries } }

CallCheckFormatOfQuery ==
    /\ called = NotCalled
    /\ input.kind = "format request"
    /\ Return("CheckFormat",
              CheckFormat(QueryGet(input.q), HeaderOf(input.entries, FALSE)))

(***************************************************************************)
(* C27.  CheckFormat fails with the invalid-format error whenever the      *)
(* format parameter is present with a value other than car or raw, even    *)
(* under a valid Accept header, and with the missing-format error whenever *)
(* there is no format parameter and the Accept header yields no valid      *)
(* entry.                                                                  *)
(***************************************************************************)
C27_FormatErrors ==
    (called = "CheckFormat" /\ input.kind = "format request") =>
        /\ (input.q.has /\ input.q.value \notin { FormatParameterCar, FormatParameterRaw })
              => output.err = "invalid format parameter"
        /\ (~input.q.has /\ ParseAccept(HeaderOf(input.entries, FALSE)) = << >>)
              => output.err = "neither Accept nor format"

\* C27 as amended: an empty format value counts as no format, and an Accept
\* header that is there and yields no entry has an error of its own
C27_FormatErrorsByCase ==
    (called = "CheckFormat" /\ input.kind = "format request") =>
        LET format == QueryGet(input.q)
            accept == HeaderOf(input.entries, FALSE)
        IN /\ format \notin { << >>, FormatParameterCar, FormatParameterRaw }
                 => output.err = "invalid format parameter"
           /\ (format = << >> /\ accept = << >>)
                 => output.err = "neither Accept nor format"
           /\ (format = << >> /\ accept # << >> /\ ParseAccept(accept) = << >>)
                 => output.err = "invalid Accept header"

C27_Witness ==
    /\ called = "CheckFormat" /\ input.kind = "format request"
    /\ ~input.q.has
    /\ input.entries = << Entry(<< "text/html" >>, << >>),
                          Entry(MimeTypeCar, << KV(<< "dups" >>, << "YES" >>) >>) >>
    /\ output.err = "invalid Accept header"

NextCalls ==
    \/ CallByteRangeString
    \/ CallParseByteRange
    \/ CallHttpParseByteRange
    \/ CallparseContentType
    \/ CallContentTypeString
    \/ CallParseContentType
    \/ CallParseAccept
    \/ CallCheckFormat
    \/ CallParseFilename
    \/ CallEtag

InitCalls ==
    /\ VerifierIdle
    /\ calls = NoCalls
    /\ called = NotCalled
    /\ output = NoOutput
    /\ input \in ByteRangeInputs \cup RangeStringInputs \cup EntityBytesInputs
                 \cup ContentTypeHeaderInputs \cup ContentTypeInputs
                 \cup HeaderListInputs \cup RequestInputs \cup FilenameInputs
                 \cup EtagInputs

SpecCalls == InitCalls /\ [][NextCalls]_vars


\* the operations that print a value, and those that read a print back
NextPrinting ==
    \/ CallByteRangeString
    \/ CallParseByteRange
    \/ CallContentTypeString
    \/ CallParseContentType
    \/ CallEtag

InitPrinting ==
    /\ VerifierIdle
    /\ calls = NoCalls
    /\ called = NotCalled
    /\ output = NoOutput
    /\ input \in ByteRangeInputs \cup RangeStringInputs \cup ContentTypeInputs
                 \cup HeaderListInputs \cup EtagInputs

SpecPrinting == InitPrinting /\ [][NextPrinting]_vars


\* the operations on a request and on paths
NextRequest ==
    \/ CallSelector
    \/ CallIpfsRoots
    \/ CallCheckPath
    \/ CallParseUrlPath
    \/ CallCheckFormatOfQuery

InitRequest ==
    /\ VerifierIdle
    /\ calls = NoCalls
    /\ called = NotCalled
    /\ output = NoOutput
    /\ input \in SelectorInputs \cup CheckPathInputs \cup UrlPathInputs
                 \cup FormatRequestInputs

SpecRequest == InitRequest /\ [][NextRequest]_vars

(***************************************************************************)
(* Two verifications side by side.  VerifyBlockStream makes a tracker, a   *)
(* seen set and a capturing reader of its own in every call; the caller's  *)
(* store is the one thing two calls can share.  Each call reads a stream   *)
(* of its own, fixed from the start, behind an engine that swallows a      *)
(* fixed number of load errors; the store is well-behaved and the budget   *)
(* is off.  StepOf is a call's next step on the store as it stands: the    *)
(* load of the root, the load of the next link, or the end of Traverse     *)
(* with VerifyBlockStream's last read.                                     *)
(***************************************************************************)
Callers == {"A", "B"}
NewCall(stream, engine) ==
    [stream |-> stream, engine |-> engine, swallows |-> engine, pc |-> "root",
     seen |-> {}, consumed |-> <<>>, streamEnd |-> "open", bt |-> ZeroTracker,
     ecrError |-> NoError, stack |-> <<>>, result |-> Running]

\* the call's BlockStream.Next
StreamNext(k) ==
    IF k.streamEnd = "open" /\ Len(k.consumed) < Len(k.stream)
    THEN Blk(k.stream[Len(k.consumed) + 1])
    ELSE Eof

LoadIn(cf, k, st, c) ==
    ReadOpener(cf,
               [seen |-> k.seen, consumed |-> k.consumed,
                streamEnd |-> k.streamEnd, bt |-> k.bt, store |-> st,
                err |-> NoError, data |-> 0, panic |-> FALSE, reads |-> 0,
                writes |-> 0, pos |-> 0],
               c, StreamNext(k), IF st[c] > 0 THEN "ok" ELSE "notfound", "ok")

AfterLoad(k, r) ==
    [k EXCEPT !.seen = r.seen, !.consumed = r.consumed,
              !.streamEnd = r.streamEnd, !.bt = r.bt,
              !.ecrError = IF r.panic THEN @ ELSE Capture(@, r.err)]

Ended(k, res) == [k EXCEPT !.pc = "done", !.result = res]

StepOf(cf, d, k, st) ==
    IF k.pc = "root"
    THEN LET r == LoadIn(cf, k, st, cf.Root)
             k1 == AfterLoad(k, r)
         IN [store |-> r.store,
             call |-> IF r.panic THEN Ended(k1, Panicked)
                      ELSE IF r.err # NoError
                      THEN Ended(k1, Returned(traversalError(Wrap(Wrap(r.err)))))
                      ELSE [k1 EXCEPT !.pc = "walk", !.stack = Links(d, cf.Root)]]
    ELSE IF k.stack # <<>>
    THEN LET c == Head(k.stack)
             r == LoadIn(cf, k, st, c)
             k1 == AfterLoad(k, r)
             swallow == r.err # NoError /\ k.swallows > 0
         IN [store |-> r.store,
             call |-> IF r.panic THEN Ended(k1, Panicked)
                      ELSE IF r.err # NoError /\ ~swallow
                      THEN Ended(k1, Returned(traversalError(Wrap(r.err))))
                      ELSE [k1 EXCEPT
                              !.swallows = IF swallow THEN @ - 1 ELSE @,
                              !.stack = IF r.err # NoError THEN Tail(k.stack)
                                        ELSE Links(d, c) \o Tail(k.stack)]]
    ELSE [store |-> st,
          call |-> IF k.ecrError # NoError
                   THEN Ended(k, Returned(traversalError(Wrap(k.ecrError))))
                   ELSE LET nx == StreamNext(k)
                            k1 == [k EXCEPT
                                     !.consumed = IF nx.t = "blk"
                                                  THEN Append(@, nx.cid) ELSE @,
                                     !.streamEnd = IF nx.t = "blk" THEN @ ELSE nx.t]
                        IN Ended(k1, FinalCheck(nx, k.bt))]

\* the call run to its end with the store to itself
RECURSIVE RunAlone(_, _, _, _)
RunAlone(cf, d, k, st) ==
    IF k.pc = "done" THEN k
    ELSE LET r == StepOf(cf, d, k, st) IN RunAlone(cf, d, r.call, r.store)

EmptyStore == [c \in Cids |-> 0]
StreamsOffered ==
    { <<P(1), P(2), P(3)>>, <<P(1), P(2)>>, <<P(1), P(3)>>, <<P(1), P(2), P(2)>>,
      <<P(1), P(3), P(2)>>, <<P(1), P(2), P(3), P(2)>>, <<P(1)>>, <<P(2)>> }
ConcurrentDags ==
    { [Leaf EXCEPT ![1] = <<P(2), P(3)>>],
      [Leaf EXCEPT ![1] = <<P(2), P(2)>>],
      [Leaf EXCEPT ![1] = <<P(2), P(3), P(2)>>] }
ConcurrentConfigs ==
    { cf \in Configs : ~cf.AllowCARv2 /\ cf.CheckRootsMismatch /\ cf.MaxBlocks = 0 }
EnginesOffered == {0, 1}

\* one of the two calls takes its next step
LoadInterleaved ==
    /\ \E who \in Callers :
         /\ calls.of[who].pc # "done"
         /\ LET r == StepOf(calls.cfg, calls.dag, calls.of[who], calls.store)
            IN calls' = [calls EXCEPT !.store = r.store, !.of[who] = r.call]
    /\ UNCHANGED << verifierVars, httpVars >>

AloneResult(who) ==
    RunAlone(calls.cfg, calls.dag,
             NewCall(calls.of[who].stream, calls.of[who].engine),
             EmptyStore).result

(***************************************************************************)
(* C26.  Two verifications with the same Config on streams of their own    *)
(* and one shared store: however their steps interleave, each returns the  *)
(* result, counters included, that it returns when it runs alone.          *)
(***************************************************************************)
C26_AloneOrTogether ==
    \A who \in Callers :
        calls.of[who].pc = "done" => calls.of[who].result = AloneResult(who)

NextConcurrent ==
    \/ LoadInterleaved

InitConcurrent ==
    /\ VerifierIdle
    /\ NoHttpCall
    /\ calls \in [running : {TRUE}, cfg : ConcurrentConfigs, dag : ConcurrentDags,
                  store : {EmptyStore},
                  of : [Callers -> { NewCall(st, e) : st \in StreamsOffered,
                                                      e \in EnginesOffered }]]

SpecConcurrent == InitConcurrent /\ [][NextConcurrent]_vars

====
